---------------------------- MODULE Spec2Model ----------------------------
(***************************************************************************)
(* SPOF analysis tool: the scoring engine (src/src/scorer.py), the SBOM    *)
(* parser and dependency aggregator (src/src/sbom_generator.py), the cache *)
(* (src/src/cache.py) and main() (src/src/main.py, src/src/config.py).     *)
(*                                                                         *)
(* Numbers.  The scorer computes with Python floats.  The model computes   *)
(* the same expressions over exact rationals [n |-> numerator,             *)
(* d |-> denominator], d > 0, in lowest terms.  Weights are given in       *)
(* hundredths (30 stands for 0.30).  round(x, 2) yields an integer number  *)
(* of hundredths (6092 stands for 60.92), nearest, an exact tie going to   *)
(* the even neighbour as Python's round does on the exact value.           *)
(***************************************************************************)
EXTENDS Integers, Sequences, FiniteSets, TLC

VARIABLES
    scorer,             \* the SPOFScorer object: construction outcome and self.weights
    call,               \* arguments of the score_dependency call in progress / last made
    locals,             \* score_dependency's local values (unrounded sub-scores and score)
    result,             \* what the last score_dependency call returned or raised
    repo_dependencies,  \* aggregate_dependencies' argument: sequence of <<repo, deps>>
    aggregated,         \* aggregate_dependencies' return value (key -> record)
    sbom,               \* the CycloneDX components read so far: sequence of <<repo, components>>
    main,               \* main(): its position, arguments, configuration and exit code
    cache               \* the Cache object, its files, the clock and the last call made on it

scorerVars == <<scorer, call, locals, result>>
aggVars == <<repo_dependencies, aggregated>>
runVars == <<sbom, main, cache>>
vars == <<scorer, call, locals, result, repo_dependencies, aggregated, sbom, main,
         cache>>

----------------------------------------------------------------------------
(* Bounds of the model                                                     *)

MaxUsage == 3
MaxRepos == 3
MaxOccurrences == 3

----------------------------------------------------------------------------
(* Exact rational arithmetic standing for float arithmetic                 *)

Abs(x) == IF x < 0 THEN -x ELSE x

RECURSIVE Gcd(_, _)
Gcd(a, b) == IF b = 0 THEN a ELSE Gcd(b, a % b)

Rat(n, d) ==
    LET g == Gcd(Abs(n), d)
    IN  [n |-> n \div g, d |-> d \div g]

RInt(k) == [n |-> k, d |-> 1]

RAdd(a, b) ==
    LET l == (a.d \div Gcd(a.d, b.d)) * b.d
    IN  Rat(a.n * (l \div a.d) + b.n * (l \div b.d), l)

RSub(a, b) == RAdd(a, [n |-> -b.n, d |-> b.d])

\* a * (p / q), q > 0
RScale(a, p, q) ==
    LET g1 == Gcd(Abs(a.n), q)
        g2 == Gcd(Abs(p), a.d)
    IN  Rat((a.n \div g1) * (p \div g2), (a.d \div g2) * (q \div g1))

\* comparisons of a rational with an integer
RGeInt(a, k) == a.n >= k * a.d
RGtInt(a, k) == a.n > k * a.d
RLtInt(a, k) == a.n < k * a.d
RLeInt(a, k) == a.n <= k * a.d

RMinInt(k, a) == IF RLtInt(a, k) THEN a ELSE RInt(k)
RMaxInt(k, a) == IF RGtInt(a, k) THEN a ELSE RInt(k)

\* mutant of Round2: ties rounded half up
Round2_halfUp(a) ==
    LET num == a.n * 100
        q == num \div a.d
        r == num % a.d
    IN  IF 2 * r >= a.d THEN q + 1 ELSE q

\* round(x, 2) at src/src/scorer.py:97-101,113-114: the nearest number of
\* hundredths, an exact tie to the even neighbour
Round2(a) ==
    LET num == a.n * 100
        q == num \div a.d
        r == num % a.d
    IN  IF 2 * r > a.d THEN q + 1
        ELSE IF 2 * r < a.d THEN q
        ELSE IF q % 2 = 0 THEN q ELSE q + 1

----------------------------------------------------------------------------
(* Inputs of the scorer                                                    *)

SubScoreNames ==
    {"internal_criticality", "ecosystem_popularity", "maintainer_risk",
     "security_health", "upstream_activity"}

\* the weights of config.yaml and of the documented scenario, in hundredths
DefaultWeights ==
    [internal_criticality |-> 30, ecosystem_popularity |-> 25,
     maintainer_risk |-> 20, security_health |-> 15, upstream_activity |-> 10]

OnlyWeight(name, w) == [k \in SubScoreNames |-> IF k = name THEN w ELSE 0]

\* weight vectors handed to SPOFScorer(weights): sums 1.00, 0.99, 1.01 (accepted),
\* 0.98 and 1.02 (rejected), a negative weight, and a vector lacking keys
WeightVectors ==
    { DefaultWeights,
      OnlyWeight("internal_criticality", 100),
      OnlyWeight("maintainer_risk", 100),
      OnlyWeight("internal_criticality", 101),
      [DefaultWeights EXCEPT !.upstream_activity = 9],
      [DefaultWeights EXCEPT !.upstream_activity = 8],
      [DefaultWeights EXCEPT !.upstream_activity = 12],
      [OnlyWeight("internal_criticality", 200) EXCEPT !.maintainer_risk = -100],
      [k \in {"internal_criticality"} |-> 100] }

\* a timestamp string of the forge bundle: None, a string fromisoformat rejects,
\* or a date `days` whole days before now
NoDate == [kind |-> "None", days |-> 0]
BadDate == [kind |-> "malformed", days |-> 0]
DaysAgo(d) == [kind |-> "iso", days |-> d]

CommitDates == {NoDate, BadDate} \cup {DaysAgo(d) : d \in {10, 60, 100, 190, 400}}
ReleaseDates == {NoDate, BadDate} \cup {DaysAgo(d) : d \in {40, 100, 200, 400, 800}}

Forge(s, c, o, i, lc, lr) ==
    [kind |-> "dict", stars |-> s, contributors |-> c, has_org_backing |-> o,
     open_issues |-> i, last_commit_date |-> lc, last_release_date |-> lr]

\* the forge bundle of the documented scenario (spec section 8)
ScenarioForge == Forge(10000, 25, TRUE, 100, DaysAgo(10), DaysAgo(40))

\* github_metrics arguments: None, {}, every combination of extreme field values,
\* and the scenario bundle with one field at a time swept over its range
ForgeBundles ==
    {[kind |-> "None"], [kind |-> "empty"]}
    \cup { Forge(s, c, o, i, lc, DaysAgo(40)) :
             s \in {0, 10000}, c \in {1, 25}, o \in BOOLEAN, i \in {0, 100},
             lc \in {NoDate, DaysAgo(10), DaysAgo(190)} }
    \cup { [ScenarioForge EXCEPT !.stars = s] : s \in {0, 1, 100, 10000, 100000} }
    \cup { [ScenarioForge EXCEPT !.contributors = c] : c \in {1, 2, 5, 10, 25} }
    \cup { [ScenarioForge EXCEPT !.open_issues = i] : i \in {0, 100, 250} }
    \cup { [ScenarioForge EXCEPT !.last_commit_date = lc] : lc \in CommitDates }
    \cup { [ScenarioForge EXCEPT !.last_release_date = lr] : lr \in ReleaseDates }
    \cup { Forge(10000, 25, TRUE, 100, lc, lr) :
             lc \in {NoDate, BadDate}, lr \in {NoDate, BadDate} }

Registry(avail, dc, ac) ==
    [kind |-> "dict", data_available |-> avail, dependent_count |-> dc,
     advisory_count |-> ac]

ScenarioRegistry == Registry(TRUE, 1000, 1)

\* depsdev_metrics arguments: None, {}, the "nothing found" bundle of
\* get_package_metrics, and bundles with data
RegistryBundles ==
    {[kind |-> "None"], [kind |-> "empty"], Registry(FALSE, 0, 0), Registry(TRUE, 0, 0)}
    \cup { Registry(TRUE, dc, 1) : dc \in {0, 1, 1000, 100000} }
    \cup { Registry(TRUE, 1000, ac) : ac \in {0, 1, 5} }

\* (usage_count, total_repos_analyzed) pairs; 5 of 10 is the scenario's
UsagePairs == ((0 .. MaxUsage) \X (0 .. MaxRepos)) \cup {<<5, 10>>}

DepInfo(u) == [name |-> "left-pad", ecosystem |-> "npm", usage_count |-> u]

----------------------------------------------------------------------------
(* SPOFScorer (src/src/scorer.py)                                          *)

\* Python truth value of an Optional[Dict] argument: None and {} are false
Truthy(bundle) == bundle.kind = "dict"

\* sum(self.weights.values())
RECURSIVE SumValues(_, _)
SumValues(f, keys) ==
    IF keys = {} THEN 0
    ELSE LET k == CHOOSE x \in keys : TRUE
         IN  f[k] + SumValues(f, keys \ {k})

\* mutant of validate_weights: the interval taken open
validate_weights_strict(weights) ==
    LET total == SumValues(weights, DOMAIN weights)
    IN  99 < total /\ total < 101

\* _validate_weights: TRUE when no ValueError is raised
validate_weights(weights) ==
    LET total == SumValues(weights, DOMAIN weights)
    IN  99 <= total /\ total <= 101

\* math.log10 on the powers of ten the bundles carry
RECURSIVE Log10(_)
Log10(x) == IF x < 10 THEN 0 ELSE 1 + Log10(x \div 10)

\* min(100, (math.log10(x) / 4) * 100)
LogScaled(x) == RMinInt(100, RScale(RInt(Log10(x)), 100, 4))

\* mutant of calc_internal_criticality: the min(100, .) clamp left out
calc_internal_criticality_unclamped(dep_info, total_repos) ==
    IF total_repos = 0 THEN RInt(0)
    ELSE RScale(Rat(dep_info.usage_count, total_repos), 100, 1)

calc_internal_criticality(dep_info, total_repos) ==
    LET usage_count == dep_info.usage_count
    IN  IF total_repos = 0 THEN RInt(0)
        ELSE RMinInt(100, RScale(Rat(usage_count, total_repos), 100, 1))

calc_ecosystem_popularity(github_metrics, depsdev_metrics) ==
    IF ~Truthy(github_metrics) /\ ~Truthy(depsdev_metrics) THEN RInt(0)
    ELSE
      LET stars == IF Truthy(github_metrics) THEN github_metrics.stars ELSE 0
          stars_score == IF stars > 0 THEN LogScaled(stars) ELSE RInt(0)
          dependent_count ==
              IF Truthy(depsdev_metrics) /\ depsdev_metrics.data_available
              THEN depsdev_metrics.dependent_count ELSE 0
          dependents_score ==
              IF dependent_count > 0 THEN LogScaled(dependent_count) ELSE RInt(0)
          score ==
              IF RGtInt(stars_score, 0) /\ RGtInt(dependents_score, 0)
              THEN RAdd(RScale(stars_score, 1, 2), RScale(dependents_score, 1, 2))
              ELSE IF RGtInt(stars_score, 0) THEN stars_score
              ELSE dependents_score
      IN  RMinInt(100, score)

\* mutant of calc_maintainer_risk: absent forge data scored as no risk
calc_maintainer_risk_absentZero(github_metrics) ==
    IF ~Truthy(github_metrics) THEN RInt(0)
    ELSE
      LET contributors == github_metrics.contributors
          contributor_risk ==
              IF contributors >= 20 THEN 20
              ELSE IF contributors >= 10 THEN 30
              ELSE IF contributors >= 5 THEN 50
              ELSE IF contributors >= 2 THEN 70
              ELSE 90
      IN  IF github_metrics.has_org_backing
          THEN RScale(RInt(contributor_risk), 7, 10)
          ELSE RInt(contributor_risk)

calc_maintainer_risk(github_metrics) ==
    IF ~Truthy(github_metrics) THEN RInt(50)
    ELSE
      LET contributors == github_metrics.contributors
          contributor_risk ==
              IF contributors >= 20 THEN 20
              ELSE IF contributors >= 10 THEN 30
              ELSE IF contributors >= 5 THEN 50
              ELSE IF contributors >= 2 THEN 70
              ELSE 90
          risk_score ==
              IF github_metrics.has_org_backing
              THEN RScale(RInt(contributor_risk), 7, 10)
              ELSE RInt(contributor_risk)
      IN  RMinInt(100, risk_score)

calc_security_health(github_metrics, depsdev_metrics) ==
    LET afterAdvisories ==
            IF Truthy(depsdev_metrics) /\ depsdev_metrics.data_available
            THEN RSub(RInt(100), RMinInt(60, RInt(depsdev_metrics.advisory_count * 15)))
            ELSE RInt(100)
        score ==
            IF Truthy(github_metrics)
            THEN LET est_security_issues == Rat(github_metrics.open_issues * 5, 100)
                 IN  RSub(afterAdvisories, RMinInt(20, RScale(est_security_issues, 2, 1)))
            ELSE afterAdvisories
    IN  RMaxInt(0, score)

\* recency curve of the last commit, scorer.py:314-322
commit_score(days) ==
    IF days < 30 THEN RInt(100)
    ELSE IF days < 90 THEN RInt(66)
    ELSE IF days < 180 THEN RInt(33)
    ELSE RMaxInt(0, RSub(RInt(100), Rat(days * 100, 365)))

\* recency curve of the last release, scorer.py:336-344
release_score(days) ==
    IF days < 90 THEN RInt(100)
    ELSE IF days < 180 THEN RInt(66)
    ELSE IF days < 365 THEN RInt(33)
    ELSE RMaxInt(0, RSub(RInt(100), Rat(days * 100, 730)))

\* a timestamp contributes when it is a string that datetime.fromisoformat parses
Usable(date) == date.kind = "iso"

\* mutant of calc_upstream_activity: a malformed timestamp counted as a signal scoring 0
calc_upstream_activity_malformedCounts(github_metrics) ==
    IF ~Truthy(github_metrics) THEN RInt(0)
    ELSE
      LET lc == github_metrics.last_commit_date
          lr == github_metrics.last_release_date
          score == RAdd(IF Usable(lc) THEN commit_score(lc.days) ELSE RInt(0),
                        IF Usable(lr) THEN release_score(lr.days) ELSE RInt(0))
          components == (IF lc.kind # "None" THEN 1 ELSE 0)
                        + (IF lr.kind # "None" THEN 1 ELSE 0)
      IN  IF components = 0 THEN RInt(50) ELSE RScale(score, 1, components)

calc_upstream_activity(github_metrics) ==
    IF ~Truthy(github_metrics) THEN RInt(0)
    ELSE
      LET lc == github_metrics.last_commit_date
          lr == github_metrics.last_release_date
          score == RAdd(IF Usable(lc) THEN commit_score(lc.days) ELSE RInt(0),
                        IF Usable(lr) THEN release_score(lr.days) ELSE RInt(0))
          components == (IF Usable(lc) THEN 1 ELSE 0) + (IF Usable(lr) THEN 1 ELSE 0)
      IN  IF components = 0 THEN RInt(50) ELSE RScale(score, 1, components)

\* mutant of calc_confidence: any registry dict counted, data_available ignored
calc_confidence_anyRegistry(github_metrics, depsdev_metrics) ==
    Rat((IF Truthy(github_metrics) THEN 1 ELSE 0)
        + (IF Truthy(depsdev_metrics) THEN 1 ELSE 0), 2)

calc_confidence(github_metrics, depsdev_metrics) ==
    LET available_sources ==
            (IF Truthy(github_metrics) THEN 1 ELSE 0)
            + (IF Truthy(depsdev_metrics) /\ depsdev_metrics.data_available
               THEN 1 ELSE 0)
    IN  Rat(available_sources, 2)

CriticalConcern ==
    "CRITICAL - High internal usage with maintenance concerns. Consider contributing or sponsoring."
CriticalMonitor == "CRITICAL - Monitor closely, very high impact to organization."
HighInternal ==
    "HIGH - Significant internal dependency. Monitor for updates and security issues."
HighInvest == "HIGH - Consider investment to ensure long-term sustainability."
MediumMsg == "MEDIUM - Moderate impact. Monitor periodically."
LowMsg == "LOW - Limited impact. Standard monitoring sufficient."
MinimalHealthy == "MINIMAL - Healthy, well-maintained project."
MinimalLow == "MINIMAL - Low impact to organization."

\* mutant of generate_recommendation: the CRITICAL branch reads internal_crit
generate_recommendation_wrongSignal(spof_score, internal_crit, ecosystem_pop, maintainer_risk) ==
    IF RGeInt(spof_score, 80)
    THEN IF RGtInt(internal_crit, 70) THEN CriticalConcern ELSE CriticalMonitor
    ELSE IF RGeInt(spof_score, 60)
    THEN IF RGtInt(internal_crit, 70) THEN HighInternal ELSE HighInvest
    ELSE IF RGeInt(spof_score, 40) THEN MediumMsg
    ELSE IF RGeInt(spof_score, 20) THEN LowMsg
    ELSE IF RGtInt(ecosystem_pop, 80) THEN MinimalHealthy ELSE MinimalLow

generate_recommendation(spof_score, internal_crit, ecosystem_pop, maintainer_risk) ==
    IF RGeInt(spof_score, 80)
    THEN IF RGtInt(maintainer_risk, 70) THEN CriticalConcern ELSE CriticalMonitor
    ELSE IF RGeInt(spof_score, 60)
    THEN IF RGtInt(internal_crit, 70) THEN HighInternal ELSE HighInvest
    ELSE IF RGeInt(spof_score, 40) THEN MediumMsg
    ELSE IF RGeInt(spof_score, 20) THEN LowMsg
    ELSE IF RGtInt(ecosystem_pop, 80) THEN MinimalHealthy ELSE MinimalLow

\* the five sub-scores, scorer.py:73-77
SubScores(dep_info, github_metrics, depsdev_metrics, total_repos_analyzed) ==
    [internal_criticality |-> calc_internal_criticality(dep_info, total_repos_analyzed),
     ecosystem_popularity |-> calc_ecosystem_popularity(github_metrics, depsdev_metrics),
     maintainer_risk |-> calc_maintainer_risk(github_metrics),
     security_health |-> calc_security_health(github_metrics, depsdev_metrics),
     upstream_activity |-> calc_upstream_activity(github_metrics)]

\* mutant of WeightedSum: the upstream_activity term left out
WeightedSum_noUpstream(weights, sub) ==
    RAdd(RAdd(RAdd(
        RScale(sub.internal_criticality, weights.internal_criticality, 100),
        RScale(sub.ecosystem_popularity, weights.ecosystem_popularity, 100)),
        RScale(sub.maintainer_risk, weights.maintainer_risk, 100)),
        RScale(sub.security_health, weights.security_health, 100))

\* the composite, scorer.py:80-86 (weights in hundredths)
WeightedSum(weights, sub) ==
    RAdd(RAdd(RAdd(RAdd(
        RScale(sub.internal_criticality, weights.internal_criticality, 100),
        RScale(sub.ecosystem_popularity, weights.ecosystem_popularity, 100)),
        RScale(sub.maintainer_risk, weights.maintainer_risk, 100)),
        RScale(sub.security_health, weights.security_health, 100)),
        RScale(sub.upstream_activity, weights.upstream_activity, 100))

\* the value score_dependency hands to _generate_recommendation, scorer.py:92-94
RecommendationInput(spof_score) == spof_score

NoLocals == [kind |-> "none"]
NoResult == [kind |-> "none"]
NoCall == [kind |-> "none"]

\* score_dependency's locals once the sub-scores and the composite are computed
ScoreLocals(weights, dep_info, github_metrics, depsdev_metrics, total_repos_analyzed) ==
    LET sub == SubScores(dep_info, github_metrics, depsdev_metrics, total_repos_analyzed)
    IN  [kind |-> "computed", sub |-> sub, spof_score |-> WeightedSum(weights, sub),
         confidence |-> calc_confidence(github_metrics, depsdev_metrics)]

\* the ScoredDependency built at scorer.py:96-118
MakeScoredDependency(dep_info, github_metrics, depsdev_metrics, loc) ==
    [kind |-> "ScoredDependency",
     name |-> dep_info.name,
     ecosystem |-> dep_info.ecosystem,
     spof_score |-> Round2(loc.spof_score),
     confidence |-> Round2(loc.confidence),
     metrics |-> [k \in SubScoreNames |-> Round2(loc.sub[k])],
     raw_data |-> [github |-> github_metrics, depsdev |-> depsdev_metrics,
                   usage |-> dep_info],
     recommendation |->
         generate_recommendation(RecommendationInput(loc.spof_score),
                                 loc.sub.internal_criticality,
                                 loc.sub.ecosystem_popularity,
                                 loc.sub.maintainer_risk)]

----------------------------------------------------------------------------
(* The scorer as a state machine: construct once, then score dependencies  *)

\* SPOFScorer(weights), scorer.py:31-46
Construct(weights) ==
    /\ scorer.state = "unconstructed"
    /\ scorer' = [state |-> IF validate_weights(weights) THEN "ready" ELSE "ValueError",
                  weights |-> weights]
    /\ UNCHANGED <<call, locals, result>>
    /\ UNCHANGED aggVars
    /\ UNCHANGED runVars

\* scorer.score_dependency(dep_info, github_metrics, depsdev_metrics, total), scorer.py:48-118
ScoreDependency(dep_info, github_metrics, depsdev_metrics, total_repos_analyzed) ==
    /\ scorer.state = "ready"
    /\ result = NoResult
    /\ call' = [kind |-> "score_dependency", dep_info |-> dep_info,
                github_metrics |-> github_metrics,
                depsdev_metrics |-> depsdev_metrics,
                total_repos_analyzed |-> total_repos_analyzed]
    /\ IF SubScoreNames \subseteq DOMAIN scorer.weights
       THEN LET loc == ScoreLocals(scorer.weights, dep_info, github_metrics,
                                   depsdev_metrics, total_repos_analyzed)
            IN  /\ locals' = loc
                /\ result' = MakeScoredDependency(dep_info, github_metrics,
                                                  depsdev_metrics, loc)
       ELSE /\ locals' = NoLocals
            /\ result' = [kind |-> "KeyError"]
    /\ UNCHANGED scorer
    /\ UNCHANGED aggVars
    /\ UNCHANGED runVars

\* the caller takes the returned value (main.py:284) and the scorer is called again
TakeResult ==
    /\ result # NoResult
    /\ result' = NoResult
    /\ call' = NoCall
    /\ locals' = NoLocals
    /\ UNCHANGED scorer
    /\ UNCHANGED aggVars
    /\ UNCHANGED runVars

\* lists of scored dependencies main can hold when scoring is over, by spof_score
ScoredLists ==
    {<<>>} \cup { <<[spof_score |-> a]>> : a \in {0, 2000, 6092} }
    \cup { <<[spof_score |-> a], [spof_score |-> b]>> : a, b \in {0, 2000, 6092} }

\* scorer.normalize_dependency_scores(scored_dependencies), main.py:294: SPOFScorer
\* (scorer.py:28-435) defines no such attribute, so the lookup raises
NormalizeDependencyScores(scored_dependencies) ==
    /\ scorer.state = "ready"
    /\ result = NoResult
    /\ call' = [kind |-> "normalize_dependency_scores",
                scored_dependencies |-> scored_dependencies]
    /\ locals' = NoLocals
    /\ result' = [kind |-> "AttributeError"]
    /\ UNCHANGED scorer
    /\ UNCHANGED aggVars
    /\ UNCHANGED runVars

InitScorer ==
    /\ scorer = [state |-> "unconstructed"]
    /\ call = NoCall
    /\ locals = NoLocals
    /\ result = NoResult

InitAggIdle ==
    /\ repo_dependencies = <<>>
    /\ aggregated = [done |-> FALSE, deps |-> <<>>]

\* no SBOM read, main() not entered
InitRunIdle ==
    /\ sbom = <<>>
    /\ main = [pc |-> "idle"]
    /\ cache = [state |-> "unconstructed"]

Init == InitScorer /\ InitAggIdle /\ InitRunIdle

Next ==
    \/ \E w \in WeightVectors : Construct(w)
    \/ /\ scorer.state = "ready"
       /\ result = NoResult
       /\ \E p \in UsagePairs, gh \in ForgeBundles, dd \in RegistryBundles :
             ScoreDependency(DepInfo(p[1]), gh, dd, p[2])
    \/ \E l \in ScoredLists : NormalizeDependencyScores(l)
    \/ TakeResult

Spec == Init /\ [][Next]_vars

----------------------------------------------------------------------------
(* Properties of the scorer, checked under Spec                            *)

Scored == result.kind = "ScoredDependency"
BothAbsent == ~Truthy(call.github_metrics) /\ ~Truthy(call.depsdev_metrics)
WeightSum == SumValues(scorer.weights, DOMAIN scorer.weights)

\* x (a number of hundredths) is a nearest number of hundredths to the rational a
NearestHundredths(x, a) ==
    LET diff == x * a.d - 100 * a.n
    IN  2 * Abs(diff) <= a.d

RECURSIVE WeightedTotal(_, _, _)
WeightedTotal(weights, sub, keys) ==
    IF keys = {} THEN RInt(0)
    ELSE LET k == CHOOSE x \in keys : TRUE
         IN  RAdd(Rat(weights[k] * sub[k].n, 100 * sub[k].d),
                  WeightedTotal(weights, sub, keys \ {k}))

InRange(a) == RGeInt(a, 0) /\ RLeInt(a, 100)

\* C1: constructing SPOFScorer(weights) raises exactly when the sum of the weight
\* values lies outside [0.99, 1.01], and succeeds for every sum inside it.
C1_ConstructionFailsIffSumOutside ==
    scorer.state # "unconstructed" =>
        /\ scorer.state = "ValueError" <=> (WeightSum < 99 \/ WeightSum > 101)
        /\ scorer.state = "ready" <=> (99 <= WeightSum /\ WeightSum <= 101)

\* C1 witness: a construction refused for a sum just above the interval, 1.02
C1_Witness == scorer.state = "ValueError" /\ WeightSum = 102

\* C2: the returned spof_score is the sum over the five sub-scores of weight times
\* (unrounded) sub-score, rounded to two decimals.
C2_CompositeIsRoundedWeightedSum ==
    Scored =>
        NearestHundredths(result.spof_score,
                          WeightedTotal(scorer.weights, locals.sub, SubScoreNames))

\* C2 witness: a returned score whose weighted sum has more than two decimals
C2_Witness ==
    /\ Scored
    /\ 100 % locals.spof_score.d # 0
    /\ scorer.weights = DefaultWeights

\* C3: for every accepted weight vector and all inputs the returned composite
\* spof_score lies in [0, 100].
C3_CompositeInRange ==
    Scored => (0 <= result.spof_score /\ result.spof_score <= 10000)

\* C4: each of the five sub-scores, as computed and as reported in metrics, lies
\* in [0, 100].
C4_SubScoresInRange ==
    Scored =>
        \A k \in SubScoreNames :
            /\ InRange(locals.sub[k])
            /\ 0 <= result.metrics[k] /\ result.metrics[k] <= 10000

\* C4 witness: a dependency used by more repositories than were analysed, where
\* the clamp of internal_criticality acts
C4_Witness ==
    /\ Scored
    /\ call.total_repos_analyzed > 0
    /\ call.dep_info.usage_count > call.total_repos_analyzed
    /\ result.metrics.internal_criticality = 10000

\* C5: confidence is the number of bundles present among {forge, registry} over 2;
\* the forge bundle is present when non-empty, the registry bundle when its
\* data_available flag is set.
C5_ConfidenceIsFractionPresent ==
    Scored =>
        LET forgePresent == call.github_metrics.kind = "dict"
            registryPresent ==
                /\ call.depsdev_metrics.kind = "dict"
                /\ call.depsdev_metrics.data_available
        IN  /\ result.confidence \in {0, 50, 100}
            /\ result.confidence =
                  50 * ((IF forgePresent THEN 1 ELSE 0)
                        + (IF registryPresent THEN 1 ELSE 0))

\* C5 witness: a forge bundle with a registry bundle whose data_available is unset
C5_Witness ==
    /\ Scored
    /\ call.github_metrics.kind = "dict"
    /\ call.depsdev_metrics = Registry(FALSE, 0, 0)
    /\ result.confidence = 50

\* the documented scenario: default weights, 5 of 10 repos, ScenarioForge, ScenarioRegistry
ScenarioScored ==
    /\ Scored
    /\ scorer.weights = DefaultWeights
    /\ call.dep_info.usage_count = 5
    /\ call.total_repos_analyzed = 10
    /\ call.github_metrics = ScenarioForge
    /\ call.depsdev_metrics = ScenarioRegistry

ScenarioRest ==
    /\ result.metrics =
          [internal_criticality |-> 5000, ecosystem_popularity |-> 8750,
           maintainer_risk |-> 1400, security_health |-> 7500,
           upstream_activity |-> 10000]
    /\ result.confidence = 100
    /\ result.recommendation = HighInvest

\* C6 as stated: the scenario yields sub-scores 50, 87.5, 14, 75, 100, composite
\* 60.93, confidence 1.0 and the HIGH "consider investment" message.
C6_ScenarioAsStated ==
    ScenarioScored => (ScenarioRest /\ result.spof_score = 6093)

\* C6 amended: the same scenario yields the same sub-scores, confidence and
\* message, and composite 60.92 (the exact sum 60.925 rounds to the even neighbour).
C6_ScenarioYields6092 ==
    ScenarioScored => (ScenarioRest /\ result.spof_score = 6092)

\* C6 witness: the scenario has been scored and its unrounded sum is 60.925
C6_Witness == ScenarioScored /\ locals.spof_score = Rat(60925, 1000)

\* C7: with both bundles absent score_dependency returns ecosystem_popularity 0,
\* maintainer_risk 50, security_health 100, upstream_activity 0, confidence 0.0,
\* and a composite fixed by internal_criticality, the weights and these defaults.
C7_NoDataDefaults ==
    (call.kind = "score_dependency" /\ BothAbsent
        /\ SubScoreNames \subseteq DOMAIN scorer.weights) =>
        /\ Scored
        /\ result.metrics.ecosystem_popularity = 0
        /\ result.metrics.maintainer_risk = 5000
        /\ result.metrics.security_health = 10000
        /\ result.metrics.upstream_activity = 0
        /\ result.confidence = 0
        /\ LET u == call.dep_info.usage_count
               t == call.total_repos_analyzed
               ic == IF t = 0 THEN RInt(0)
                     ELSE IF u >= t THEN RInt(100) ELSE Rat(100 * u, t)
               w == scorer.weights
               expected ==
                   RAdd(Rat(w.internal_criticality * ic.n, 100 * ic.d),
                        Rat(w.maintainer_risk * 50 + w.security_health * 100, 100))
           IN  NearestHundredths(result.spof_score, expected)

\* C7 witness: a dependency scored with forge None and registry None under the
\* default weights, 1 of 3 repos
C7_Witness ==
    /\ Scored
    /\ call.github_metrics = [kind |-> "None"]
    /\ call.depsdev_metrics = [kind |-> "None"]
    /\ scorer.weights = DefaultWeights
    /\ call.dep_info.usage_count = 1
    /\ call.total_repos_analyzed = 3

\* band of a recommendation message (its label) and of a score in hundredths
LabelBand(msg) ==
    IF msg \in {CriticalConcern, CriticalMonitor} THEN "CRITICAL"
    ELSE IF msg \in {HighInternal, HighInvest} THEN "HIGH"
    ELSE IF msg = MediumMsg THEN "MEDIUM"
    ELSE IF msg = LowMsg THEN "LOW"
    ELSE "MINIMAL"

\* the report's priority bucket, src/src/output.py:54-58
ScoreBand(hundredths) ==
    IF hundredths >= 8000 THEN "CRITICAL"
    ELSE IF hundredths >= 6000 THEN "HIGH"
    ELSE IF hundredths >= 4000 THEN "MEDIUM"
    ELSE IF hundredths >= 2000 THEN "LOW"
    ELSE "MINIMAL"

\* C8: the band label of the recommendation agrees with the band of the reported
\* spof_score, hence with the report's priority bucket.
C8_LabelAgreesWithReportedScore ==
    Scored => LabelBand(result.recommendation) = ScoreBand(result.spof_score)

\* C9: within a band the message is selected by the band's signal only:
\* CRITICAL by maintainer_risk > 70, HIGH by internal_criticality > 70, MINIMAL by
\* ecosystem_popularity > 80; MEDIUM and LOW have one message each.
C9_MessageByTieBreakSignal ==
    Scored =>
        LET band == LabelBand(result.recommendation)
            msg == result.recommendation
        IN  /\ band = "CRITICAL" =>
                 (msg = CriticalConcern <=> RGtInt(locals.sub.maintainer_risk, 70))
            /\ band = "HIGH" =>
                 (msg = HighInternal <=> RGtInt(locals.sub.internal_criticality, 70))
            /\ band = "MINIMAL" =>
                 (msg = MinimalHealthy <=> RGtInt(locals.sub.ecosystem_popularity, 80))
            /\ band = "MEDIUM" => msg = MediumMsg
            /\ band = "LOW" => msg = LowMsg
            /\ band = (IF RGeInt(locals.spof_score, 80) THEN "CRITICAL"
                       ELSE IF RGeInt(locals.spof_score, 60) THEN "HIGH"
                       ELSE IF RGeInt(locals.spof_score, 40) THEN "MEDIUM"
                       ELSE IF RGeInt(locals.spof_score, 20) THEN "LOW"
                       ELSE "MINIMAL")

\* C9 witness: a CRITICAL score with maintainer_risk 90 and internal_criticality 0
C9_Witness ==
    /\ Scored
    /\ result.recommendation = CriticalConcern
    /\ result.metrics.maintainer_risk = 9000
    /\ result.metrics.internal_criticality = 0

\* C16: every weight vector for which construction succeeds has all five named
\* weights, each non-negative; a vector with a negative or a missing weight is
\* rejected at construction.
C16_AcceptedWeightsAreValid ==
    scorer.state = "ready" =>
        /\ DOMAIN scorer.weights = SubScoreNames
        /\ \A k \in DOMAIN scorer.weights : scorer.weights[k] >= 0

\* C17: ecosystem_popularity is the equal-weight average of the log-scaled stars
\* score and the log-scaled dependent-count score when both signals are present
\* (also when one of the two scores is 0), the one score when exactly one signal
\* is present, and 0 when neither is.
C17_PopularityByPresence ==
    Scored =>
        LET gh == call.github_metrics
            dd == call.depsdev_metrics
            starsPresent == gh.kind = "dict"
            dependentsPresent == dd.kind = "dict" /\ dd.data_available
            expected ==
                IF starsPresent /\ dependentsPresent
                THEN RScale(RAdd(LogScaled(gh.stars), LogScaled(dd.dependent_count)), 1, 2)
                ELSE IF starsPresent THEN LogScaled(gh.stars)
                ELSE IF dependentsPresent THEN LogScaled(dd.dependent_count)
                ELSE RInt(0)
        IN  locals.sub.ecosystem_popularity = expected

\* the timestamps of a forge bundle that are present and parseable, with their
\* recency scores
UsableSignals(gh) ==
    (IF gh.last_commit_date.kind = "iso"
     THEN {<<"commit", commit_score(gh.last_commit_date.days)>>} ELSE {})
    \cup (IF gh.last_release_date.kind = "iso"
          THEN {<<"release", release_score(gh.last_release_date.days)>>} ELSE {})

RECURSIVE SumScores(_)
SumScores(signals) ==
    IF signals = {} THEN RInt(0)
    ELSE LET x == CHOOSE y \in signals : TRUE
         IN  RAdd(x[2], SumScores(signals \ {x}))

\* C18: upstream_activity is the average of the recency scores of the timestamps
\* that are present and parseable; a malformed timestamp counts as absent and
\* scoring still returns; forge data without a usable timestamp gives 50, no forge
\* data gives 0.
C18_UpstreamActivityAveragesUsable ==
    (call.kind = "score_dependency" /\ SubScoreNames \subseteq DOMAIN scorer.weights) =>
        /\ Scored
        /\ LET gh == call.github_metrics
           IN  locals.sub.upstream_activity =
                  IF gh.kind # "dict" THEN RInt(0)
                  ELSE IF UsableSignals(gh) = {} THEN RInt(50)
                  ELSE RScale(SumScores(UsableSignals(gh)), 1,
                              Cardinality(UsableSignals(gh)))

\* C18 witness: a forge bundle whose last commit is malformed and whose last
\* release, 40 days old, alone gives the score 100
C18_Witness ==
    /\ Scored
    /\ call.github_metrics.kind = "dict"
    /\ call.github_metrics.last_commit_date = BadDate
    /\ call.github_metrics.last_release_date = DaysAgo(40)
    /\ result.metrics.upstream_activity = 10000

\* C19: the normalization step applied to the list of scored dependencies returns
\* the dependencies with scores such that a < b before implies a' <= b' after.
C19_NormalizationMonotonic ==
    call.kind = "normalize_dependency_scores" =>
        /\ result.kind = "normalized"
        /\ Len(result.scored_dependencies) = Len(call.scored_dependencies)
        /\ \A i, j \in 1 .. Len(call.scored_dependencies) :
              call.scored_dependencies[i].spof_score
                    < call.scored_dependencies[j].spof_score
              => result.scored_dependencies[i].spof_score
                    <= result.scored_dependencies[j].spof_score

----------------------------------------------------------------------------
(* SBOMGenerator: names and aggregation (src/src/sbom_generator.py)        *)
(* A Python string that the code inspects is a sequence of one-character   *)
(* strings; version strings and repository names are never inspected.      *)

UpperLetters ==
    <<"A", "B", "C", "D", "E", "F", "G", "H", "I", "J", "K", "L", "M",
      "N", "O", "P", "Q", "R", "S", "T", "U", "V", "W", "X", "Y", "Z">>
LowerLetters ==
    <<"a", "b", "c", "d", "e", "f", "g", "h", "i", "j", "k", "l", "m",
      "n", "o", "p", "q", "r", "s", "t", "u", "v", "w", "x", "y", "z">>

\* str.lower() on one character
LowerChar(c) ==
    IF \E i \in 1 .. Len(UpperLetters) : UpperLetters[i] = c
    THEN LowerLetters[CHOOSE i \in 1 .. Len(UpperLetters) : UpperLetters[i] = c]
    ELSE c

\* str.lower()
Lower(str) == [i \in 1 .. Len(str) |-> LowerChar(str[i])]

\* str.replace(from, to) for one-character from and to
ReplaceChar(str, from, to) == [i \in 1 .. Len(str) |-> IF str[i] = from THEN to ELSE str[i]]

Pypi == <<"p", "y", "p", "i">>
PyPIMixed == <<"P", "y", "P", "I">>
Npm == <<"n", "p", "m">>
Maven == <<"m", "a", "v", "e", "n">>
Golang == <<"g", "o">>
UnknownEcosystem == <<"u", "n", "k", "n", "o", "w", "n">>

\* the Dependency dataclass, sbom_generator.py:19-26
Dependency(name, version, ecosystem) ==
    [name |-> name, version |-> version, ecosystem |-> ecosystem,
     purl |-> <<"p", "k", "g", ":">> \o ecosystem \o <<"/">> \o name]

\* mutant of normalize_package_name: pypi names lower-cased, '_' kept
normalize_package_name_keepUnderscore(dep) ==
    LET ecosystem == Lower(dep.ecosystem)
    IN  IF ecosystem = Maven \/ ecosystem = Npm THEN dep.name ELSE Lower(dep.name)

\* mutant of normalize_package_name: the ecosystem tag compared as given
normalize_package_name_tagAsGiven(dep) ==
    LET ecosystem == dep.ecosystem
        name == dep.name
    IN  IF ecosystem = Pypi THEN ReplaceChar(Lower(name), "_", "-")
        ELSE IF ecosystem = Maven THEN name
        ELSE IF ecosystem = Npm THEN name
        ELSE Lower(name)

normalize_package_name(dep) ==
    LET ecosystem == Lower(dep.ecosystem)
        name == dep.name
    IN  IF ecosystem = Pypi THEN ReplaceChar(Lower(name), "_", "-")
        ELSE IF ecosystem = Maven THEN name
        ELSE IF ecosystem = Npm THEN name
        ELSE Lower(name)

\* f"{dep.ecosystem}:{normalized_name}", sbom_generator.py:255
AggregationKey(dep, normalized_name) == dep.ecosystem \o <<":">> \o normalized_name

SeqRange(seq) == {seq[i] : i \in 1 .. Len(seq)}

\* mutant of AggregateOne: the version is recorded only when the record is created
AggregateOne_firstVersionOnly(agg, repo_name, dep) ==
    LET normalized_name == normalize_package_name(dep)
        key == AggregationKey(dep, normalized_name)
        known == \E i \in 1 .. Len(agg) : agg[i].key = key
        agg1 == IF known THEN agg
                ELSE Append(agg, [key |-> key, name |-> dep.name,
                                  normalized_name |-> normalized_name,
                                  ecosystem |-> dep.ecosystem, versions |-> {dep.version},
                                  repos_using |-> <<>>, purl |-> dep.purl])
        j == CHOOSE i \in 1 .. Len(agg1) : agg1[i].key = key
    IN  [agg1 EXCEPT ![j] =
            [@ EXCEPT !.repos_using = IF repo_name \in SeqRange(@) THEN @
                                      ELSE Append(@, repo_name)]]

\* mutant of AggregateOne: the repository appended without the membership test
AggregateOne_appendAlways(agg, repo_name, dep) ==
    LET normalized_name == normalize_package_name(dep)
        key == AggregationKey(dep, normalized_name)
        known == \E i \in 1 .. Len(agg) : agg[i].key = key
        agg1 == IF known THEN agg
                ELSE Append(agg, [key |-> key, name |-> dep.name,
                                  normalized_name |-> normalized_name,
                                  ecosystem |-> dep.ecosystem, versions |-> {},
                                  repos_using |-> <<>>, purl |-> dep.purl])
        j == CHOOSE i \in 1 .. Len(agg1) : agg1[i].key = key
    IN  [agg1 EXCEPT ![j] =
            [@ EXCEPT !.versions = @ \cup {dep.version},
                      !.repos_using = Append(@, repo_name)]]

\* one pass of the inner loop body, sbom_generator.py:254-269; the dict under
\* construction is the sequence of its values in insertion order
AggregateOne(agg, repo_name, dep) ==
    LET normalized_name == normalize_package_name(dep)
        key == AggregationKey(dep, normalized_name)
        known == \E i \in 1 .. Len(agg) : agg[i].key = key
        agg1 == IF known THEN agg
                ELSE Append(agg, [key |-> key, name |-> dep.name,
                                  normalized_name |-> normalized_name,
                                  ecosystem |-> dep.ecosystem, versions |-> {},
                                  repos_using |-> <<>>, purl |-> dep.purl])
        j == CHOOSE i \in 1 .. Len(agg1) : agg1[i].key = key
    IN  [agg1 EXCEPT ![j] =
            [@ EXCEPT !.versions = @ \cup {dep.version},
                      !.repos_using = IF repo_name \in SeqRange(@) THEN @
                                      ELSE Append(@, repo_name)]]

RECURSIVE AggregateDeps(_, _, _)
AggregateDeps(agg, repo_name, deps) ==
    IF deps = <<>> THEN agg
    ELSE AggregateDeps(AggregateOne(agg, repo_name, Head(deps)), repo_name, Tail(deps))

RECURSIVE AggregateRepos(_, _)
AggregateRepos(agg, repos) ==
    IF repos = <<>> THEN agg
    ELSE AggregateRepos(AggregateDeps(agg, Head(repos)[1], Head(repos)[2]), Tail(repos))

\* aggregate_dependencies, sbom_generator.py:240-278; repo_dependencies is the
\* dict as the sequence of its (repo_name, deps) items; versions stays a set, the
\* order of list(set) being unspecified
aggregate_dependencies(repos) ==
    LET agg == AggregateRepos(<<>>, repos)
    IN  [i \in 1 .. Len(agg) |->
            [key |-> agg[i].key, name |-> agg[i].name,
             normalized_name |-> agg[i].normalized_name,
             ecosystem |-> agg[i].ecosystem, versions |-> agg[i].versions,
             repos_using |-> agg[i].repos_using, purl |-> agg[i].purl,
             usage_count |-> Len(agg[i].repos_using)]]

\* repositories and occurrences the SBOM phase can hand to the aggregator
RepoNames == {"org/api", "org/web"}

Occurrences ==
    { Dependency(<<"a", "_", "b">>, "1.0", Pypi),
      Dependency(<<"A", "-", "b">>, "1.0", Pypi),
      Dependency(<<"A", "-", "b">>, "2.0", Pypi),
      Dependency(<<"a", "b">>, "1.0", Pypi),
      Dependency(<<"a", "_", "b">>, "1.0", Npm),
      Dependency(<<"A", "-", "b">>, "1.0", Npm),
      Dependency(<<"a", "_", "b">>, "1.0", PyPIMixed),
      Dependency(<<"A", "-", "b">>, "2.0", Golang),
      Dependency(<<"A", "_", "b">>, "1.0", Maven),
      Dependency(<<"A", "_", "b">>, "1.0", UnknownEcosystem) }

NotAggregated == [done |-> FALSE, deps |-> <<>>]

OccurrenceCount(repos) ==
    LET RECURSIVE Count(_)
        Count(rs) == IF rs = <<>> THEN 0 ELSE Len(Head(rs)[2]) + Count(Tail(rs))
    IN  Count(repos)

\* main.py:163-174: the next repository gets its entry in repo_dependencies
\* (empty when SBOM generation failed or found nothing)
StoreRepo(repo_name) ==
    /\ ~aggregated.done
    /\ \A i \in 1 .. Len(repo_dependencies) : repo_dependencies[i][1] # repo_name
    /\ repo_dependencies' = Append(repo_dependencies, <<repo_name, <<>>>>)
    /\ UNCHANGED aggregated
    /\ UNCHANGED scorerVars
    /\ UNCHANGED runVars

\* sbom_generator.py:161-177: one more component of the repository being
\* processed becomes a Dependency of its list
AddOccurrence(dep) ==
    /\ ~aggregated.done
    /\ repo_dependencies # <<>>
    /\ OccurrenceCount(repo_dependencies) < MaxOccurrences
    /\ repo_dependencies' =
          [repo_dependencies EXCEPT ![Len(repo_dependencies)][2] = Append(@, dep)]
    /\ UNCHANGED aggregated
    /\ UNCHANGED scorerVars
    /\ UNCHANGED runVars

\* main.py:178: aggregated_deps = sbom_generator.aggregate_dependencies(repo_dependencies)
Aggregate ==
    /\ ~aggregated.done
    /\ aggregated' = [done |-> TRUE, deps |-> aggregate_dependencies(repo_dependencies)]
    /\ UNCHANGED repo_dependencies
    /\ UNCHANGED scorerVars
    /\ UNCHANGED runVars

InitAgg ==
    /\ InitScorer
    /\ InitRunIdle
    /\ repo_dependencies = <<>>
    /\ aggregated = NotAggregated

NextAgg ==
    \/ \E r \in RepoNames : StoreRepo(r)
    \/ \E dep \in Occurrences : AddOccurrence(dep)
    \/ Aggregate

SpecAgg == InitAgg /\ [][NextAgg]_vars

----------------------------------------------------------------------------
(* SBOMGenerator: parsing a CycloneDX SBOM (src/src/sbom_generator.py)     *)

\* str.startswith(prefix)
StartsWith(str, prefix) ==
    Len(str) >= Len(prefix) /\ SubSeq(str, 1, Len(prefix)) = prefix

\* str.split(sep) for a one-character sep
RECURSIVE Split(_, _)
Split(str, sep) ==
    IF \A i \in 1 .. Len(str) : str[i] # sep THEN <<str>>
    ELSE LET k == CHOOSE i \in 1 .. Len(str) :
                      str[i] = sep /\ \A j \in 1 .. (i - 1) : str[j] # sep
         IN  <<SubSeq(str, 1, k - 1)>> \o Split(SubSeq(str, k + 1, Len(str)), sep)

\* str.replace(old, ""): every occurrence of old removed, left to right
RECURSIVE RemoveAll(_, _)
RemoveAll(str, old) ==
    IF str = <<>> THEN <<>>
    ELSE IF StartsWith(str, old)
    THEN RemoveAll(SubSeq(str, Len(old) + 1, Len(str)), old)
    ELSE <<Head(str)>> \o RemoveAll(Tail(str), old)

PkgPrefix == <<"p", "k", "g", ":">>

\* _extract_ecosystem_from_purl, sbom_generator.py:182-207
extract_ecosystem_from_purl(purl) ==
    IF purl = <<>> THEN UnknownEcosystem
    ELSE IF StartsWith(purl, PkgPrefix)
    THEN LET parts == Split(purl, "/")
         IN  IF Len(parts) >= 1
             THEN LET ecosystem_type == RemoveAll(parts[1], PkgPrefix)
                  IN  Lower(ecosystem_type)
             ELSE UnknownEcosystem
    ELSE UnknownEcosystem

\* component.get("name"): None when the key is missing, else the string
NoName == [kind |-> "None"]
Name(str) == [kind |-> "str", s |-> str]

\* Python truth value of an Optional[str]
StrTruthy(x) == x.kind = "str" /\ x.s # <<>>

\* a CycloneDX component, as _parse_cyclonedx reads it
Component(name, version, purl) == [name |-> name, version |-> version, purl |-> purl]

\* mutant of parse_component: the "if name:" test left out
parse_component_keepNameless(dependencies, component) ==
    LET name == component.name
        ecosystem == extract_ecosystem_from_purl(component.purl)
    IN  Append(dependencies,
               [name |-> IF name.kind = "str" THEN name.s ELSE <<>>,
                version |-> component.version,
                ecosystem |-> ecosystem, purl |-> component.purl])

\* one pass of the loop body of _parse_cyclonedx, sbom_generator.py:161-177
parse_component(dependencies, component) ==
    LET name == component.name
        version == component.version
        purl == component.purl
        ecosystem == extract_ecosystem_from_purl(purl)
    IN  IF StrTruthy(name)
        THEN Append(dependencies,
                    [name |-> name.s, version |-> version,
                     ecosystem |-> ecosystem, purl |-> purl])
        ELSE dependencies

\* package URLs an SBOM can carry: none, well-formed, without the "pkg:" prefix,
\* with an empty type, with a mixed-case type, with several '/'
PurlNpm == <<"p", "k", "g", ":", "n", "p", "m", "/", "x">>
PurlPyPI == <<"p", "k", "g", ":", "P", "y", "P", "I", "/", "x">>
PurlMaven == <<"p", "k", "g", ":", "m", "a", "v", "e", "n", "/", "g", "/", "a">>
PurlNoPrefix == <<"n", "p", "m", "/", "x">>
PurlEmptyType == <<"p", "k", "g", ":", "/", "x">>
Purls == {<<>>, PurlNpm, PurlPyPI, PurlMaven, PurlNoPrefix, PurlEmptyType}

Components ==
    { Component(NoName, "1.0", PurlNpm), Component(Name(<<>>), "1.0", PurlNpm) }
    \cup { Component(Name(<<"A", "_", "b">>), "1.0", purl) : purl \in Purls }

ComponentCount(read) ==
    LET RECURSIVE Count(_)
        Count(rs) == IF rs = <<>> THEN 0 ELSE Len(Head(rs)[2]) + Count(Tail(rs))
    IN  Count(read)

\* main.py:166: generate_sbom_for_repo is called for the next repository and
\* _parse_cyclonedx starts with dependencies = []
GenerateSbom(repo_name) ==
    /\ ~aggregated.done
    /\ \A i \in 1 .. Len(repo_dependencies) : repo_dependencies[i][1] # repo_name
    /\ sbom' = Append(sbom, <<repo_name, <<>>>>)
    /\ repo_dependencies' = Append(repo_dependencies, <<repo_name, <<>>>>)
    /\ UNCHANGED <<aggregated, main, cache>>
    /\ UNCHANGED scorerVars

\* sbom_generator.py:161-177: the next component of the SBOM is read
ParseComponent(component) ==
    /\ ~aggregated.done
    /\ sbom # <<>>
    /\ ComponentCount(sbom) < MaxOccurrences
    /\ sbom' = [sbom EXCEPT ![Len(sbom)][2] = Append(@, component)]
    /\ repo_dependencies' =
          [repo_dependencies EXCEPT ![Len(repo_dependencies)][2] =
              parse_component(@, component)]
    /\ UNCHANGED <<aggregated, main, cache>>
    /\ UNCHANGED scorerVars

NextSbom ==
    \/ \E r \in RepoNames : GenerateSbom(r)
    \/ \E c \in Components : ParseComponent(c)
    \/ Aggregate

SpecSbom == InitAgg /\ [][NextSbom]_vars

----------------------------------------------------------------------------
(* Properties of the aggregator, checked under SpecAgg                     *)

\* the occurrences fed to the aggregator, as (repo_name, dep) pairs
InputOccurrences ==
    UNION { { <<repo_dependencies[i][1], repo_dependencies[i][2][j]>> :
                j \in 1 .. Len(repo_dependencies[i][2]) } :
            i \in 1 .. Len(repo_dependencies) }

\* names equal up to letter case and '-' versus '_'
SameUpToCaseAndDash(n1, n2) ==
    /\ Len(n1) = Len(n2)
    /\ \A i \in 1 .. Len(n1) :
          LET c1 == LowerChar(n1[i])
              c2 == LowerChar(n2[i])
          IN  \/ c1 = c2
              \/ {c1, c2} = {"-", "_"}

\* record i of the output carries the repository and the version of an occurrence
Carries(i, occ) ==
    /\ aggregated.deps[i].ecosystem = occ[2].ecosystem
    /\ occ[1] \in SeqRange(aggregated.deps[i].repos_using)
    /\ occ[2].version \in aggregated.deps[i].versions

\* C10: the output holds at most one record per (ecosystem, normalized_name); two
\* occurrences with the same ecosystem and normalized name are merged into one
\* record, and so are two pypi occurrences whose names differ only by letter case
\* or by '-' versus '_'.
C10_OneRecordPerIdentity ==
    aggregated.done =>
        LET recs == aggregated.deps
            idx == 1 .. Len(recs)
        IN  /\ \A i, j \in idx :
                  (/\ recs[i].ecosystem = recs[j].ecosystem
                   /\ recs[i].normalized_name = recs[j].normalized_name) => i = j
            /\ \A o1, o2 \in InputOccurrences :
                  (/\ o1[2].ecosystem = o2[2].ecosystem
                   /\ normalize_package_name(o1[2]) = normalize_package_name(o2[2]))
                  => \E i \in idx :
                        /\ Carries(i, o1) /\ Carries(i, o2)
                        /\ recs[i].normalized_name = normalize_package_name(o1[2])
            /\ \A o1, o2 \in InputOccurrences :
                  (/\ o1[2].ecosystem = Pypi /\ o2[2].ecosystem = Pypi
                   /\ SameUpToCaseAndDash(o1[2].name, o2[2].name))
                  => /\ \E i \in idx : Carries(i, o1) /\ Carries(i, o2)
                     /\ Cardinality({ i \in idx :
                            /\ recs[i].ecosystem = Pypi
                            /\ SameUpToCaseAndDash(recs[i].name, o1[2].name) }) = 1

\* C10 witness: pypi "a_b" 1.0 of one repository and pypi "A-b" 2.0 of another
\* have been merged into one record
C10_Witness ==
    /\ aggregated.done
    /\ \E i \in 1 .. Len(aggregated.deps) :
          /\ aggregated.deps[i].ecosystem = Pypi
          /\ aggregated.deps[i].name = <<"a", "_", "b">>
          /\ aggregated.deps[i].versions = {"1.0", "2.0"}
          /\ Len(aggregated.deps[i].repos_using) = 2
    /\ <<"org/web", Dependency(<<"A", "-", "b">>, "2.0", Pypi)>> \in InputOccurrences

\* the same repo_dependencies items in every processing order
Orders(repos) ==
    { [i \in 1 .. Len(repos) |-> repos[p[i]]] : p \in Permutations(1 .. Len(repos)) }

\* what a result says per identity, the order of records and of repositories left out
Summary(recs) ==
    { [ecosystem |-> recs[i].ecosystem, normalized_name |-> recs[i].normalized_name,
       versions |-> recs[i].versions, repos |-> SeqRange(recs[i].repos_using),
       usage_count |-> recs[i].usage_count] : i \in 1 .. Len(recs) }

\* C11: aggregate_dependencies is commutative in repository processing order: the
\* same occurrences fed in any order of repositories give the same identities and,
\* per identity, the same version set, set of using repositories and usage_count.
C11_RepositoryOrderIrrelevant ==
    aggregated.done =>
        \A o \in Orders(repo_dependencies) :
            Summary(aggregate_dependencies(o)) = Summary(aggregated.deps)

\* C11 witness: two repositories hold different versions of one pypi identity under
\* different spellings, and the other processing order returns a different mapping
C11_Witness ==
    /\ aggregated.done
    /\ Len(repo_dependencies) = 2
    /\ Dependency(<<"a", "_", "b">>, "1.0", Pypi) \in SeqRange(repo_dependencies[1][2])
    /\ Dependency(<<"A", "-", "b">>, "2.0", Pypi) \in SeqRange(repo_dependencies[2][2])
    /\ \E o \in Orders(repo_dependencies) :
          aggregate_dependencies(o) # aggregated.deps

\* the repository names in processing order
RepoOrder == [i \in 1 .. Len(repo_dependencies) |-> repo_dependencies[i][1]]

\* the repository has at least one occurrence of the record's identity
Uses(repo_name, rec) ==
    \E occ \in InputOccurrences :
        /\ occ[1] = repo_name
        /\ occ[2].ecosystem = rec.ecosystem
        /\ normalize_package_name(occ[2]) = rec.normalized_name

\* C12: in every record repos_using lists each repository with at least one
\* occurrence of the identity exactly once, in order of first sighting, and
\* usage_count is the length of that list.
C12_ReposUsingFirstSightingOrder ==
    aggregated.done =>
        \A i \in 1 .. Len(aggregated.deps) :
            LET rec == aggregated.deps[i]
            IN  /\ rec.repos_using = SelectSeq(RepoOrder, LAMBDA r : Uses(r, rec))
                /\ \A a, b \in 1 .. Len(rec.repos_using) :
                      rec.repos_using[a] = rec.repos_using[b] => a = b
                /\ rec.usage_count = Len(rec.repos_using)

\* C12 witness: a record used by two repositories, the second of which holds two
\* occurrences of the identity
C12_Witness ==
    /\ aggregated.done
    /\ Len(repo_dependencies) = 2
    /\ Len(repo_dependencies[2][2]) = 2
    /\ \E i \in 1 .. Len(aggregated.deps) :
          /\ aggregated.deps[i].repos_using = <<"org/web", "org/api">>
          /\ aggregated.deps[i].usage_count = 2
          /\ \A j \in 1 .. 2 : Uses("org/api", aggregated.deps[i])
                                /\ normalize_package_name(repo_dependencies[2][2][j])
                                      = aggregated.deps[i].normalized_name
                                /\ repo_dependencies[2][2][j].ecosystem
                                      = aggregated.deps[i].ecosystem


\* the normalized name the rules prescribe, character by character
PrescribedName(dep) ==
    LET tag == Lower(dep.ecosystem)
        n == dep.name
    IN  IF tag = Pypi
        THEN [i \in 1 .. Len(n) |->
                IF LowerChar(n[i]) = "_" THEN "-" ELSE LowerChar(n[i])]
        ELSE IF tag \in {Maven, Npm} THEN n
        ELSE [i \in 1 .. Len(n) |-> LowerChar(n[i])]

----------------------------------------------------------------------------
(* Properties of SBOM parsing, checked under SpecSbom                      *)

\* the components read for repository i that carry a non-empty name
Named(i) == SelectSeq(sbom[i][2], LAMBDA c : c.name.kind = "str" /\ Len(c.name.s) > 0)

\* C14: a component with an empty or missing name is dropped when the SBOM is
\* parsed: no Dependency with an empty name reaches aggregate_dependencies and no
\* aggregated record has an empty name; every named component is kept.
C14_NamelessComponentsDropped ==
    /\ \A i \in 1 .. Len(sbom) :
          /\ Len(repo_dependencies[i][2]) = Len(Named(i))
          /\ \A j \in 1 .. Len(repo_dependencies[i][2]) :
                /\ repo_dependencies[i][2][j].name # <<>>
                /\ repo_dependencies[i][2][j].name = Named(i)[j].name.s
    /\ \A i \in 1 .. Len(aggregated.deps) : aggregated.deps[i].name # <<>>

\* C14 witness: an SBOM with a component lacking the name, one with an empty name
\* and a named one has been parsed and aggregated
C14_Witness ==
    /\ aggregated.done
    /\ Len(sbom) = 1
    /\ \E a, b, c \in 1 .. Len(sbom[1][2]) :
          /\ sbom[1][2][a].name = NoName
          /\ sbom[1][2][b].name = Name(<<>>)
          /\ StrTruthy(sbom[1][2][c].name)
    /\ Len(repo_dependencies[1][2]) = 1
    /\ Len(aggregated.deps) = 1

\* the package-URL type: what stands between "pkg:" and the first '/'
PurlType(purl) == SubSeq(Split(purl, "/")[1], Len(PkgPrefix) + 1, Len(Split(purl, "/")[1]))

\* the ecosystem tag the rule prescribes for a package URL
PrescribedTag(purl) ==
    IF purl = <<>> \/ ~StartsWith(purl, PkgPrefix) \/ PurlType(purl) = <<>>
    THEN UnknownEcosystem
    ELSE [i \in 1 .. Len(PurlType(purl)) |-> LowerChar(PurlType(purl)[i])]

\* C15: the ecosystem tag of an occurrence is the lower-cased package-URL type
\* between "pkg:" and the first '/', and "unknown" for an empty purl, a purl
\* without the "pkg:" prefix and a purl with an empty type.
C15_EcosystemTagFromPurl ==
    \A i \in 1 .. Len(repo_dependencies) :
        \A j \in 1 .. Len(repo_dependencies[i][2]) :
            LET dep == repo_dependencies[i][2][j]
            IN  dep.ecosystem = PrescribedTag(dep.purl)

----------------------------------------------------------------------------
(* main() (src/src/main.py) with Config (src/src/config.py)                *)

\* the YAML file Config reads: absent, or its github.token, github.org,
\* scoring.weights and github.max_repos; token "unset" is ${GITHUB_TOKEN} with the
\* variable not set
NoFile == [kind |-> "missing"]
ConfigFile(token, org, weights, max_repos) ==
    [kind |-> "file", token |-> token, org |-> org, weights |-> weights,
     max_repos |-> max_repos]

ValidFile == ConfigFile("ghp_x", "acme", DefaultWeights, 2)

ConfigFiles ==
    { NoFile, ValidFile,
      [ValidFile EXCEPT !.token = "unset"],
      [ValidFile EXCEPT !.token = ""],
      [ValidFile EXCEPT !.org = ""],
      [ValidFile EXCEPT !.org = "example-org"],
      [ValidFile EXCEPT !.weights = [DefaultWeights EXCEPT !.upstream_activity = 12]],
      [ValidFile EXCEPT !.max_repos = 0] }

\* command-line arguments: org and --max-repos are None ("" and 0 stand for the
\* falsy values) or given
Args(org, max_repos, no_cache) == [org |-> org, max_repos |-> max_repos, no_cache |-> no_cache]
ArgsSet == { Args(o, m, n) : o \in {"", "acme", "example-org"}, m \in {0, 1, -1},
                             n \in BOOLEAN }

\* what the run meets outside: whether the forge answers the client's first
\* request, and how many repositories the organization has
Environments == { [forge_up |-> f, org_repos |-> r] : f \in BOOLEAN, r \in 0 .. 2 }

\* Config.__init__, config.py:17-38 with _validate, config.py:69-87: the exception
\* raised, or "none"
config_error(file) ==
    IF file.kind = "missing" THEN "FileNotFoundError"
    ELSE IF file.token = "unset" THEN "ValueError"
    ELSE IF file.token = "" THEN "ValueError"
    ELSE IF file.org = "" THEN "ValueError"
    ELSE IF ~validate_weights(file.weights) THEN "ValueError"
    ELSE IF file.max_repos <= 0 THEN "ValueError"
    ELSE "none"

\* the steps of main() inside its try block
TrySteps ==
    {"load_config", "override", "check_org", "init_cache", "init_github",
     "init_sbom", "init_depsdev"}

\* main.py:76-84: main is entered with its arguments
Invoke(args, file, env) ==
    /\ main.pc = "idle"
    /\ main' = [pc |-> "load_config", args |-> args, file |-> file, env |-> env,
                config |-> [kind |-> "none"], error |-> "none",
                interrupted |-> FALSE, exit_code |-> -1]
    /\ UNCHANGED <<sbom, cache>>
    /\ UNCHANGED scorerVars
    /\ UNCHANGED aggVars

\* main.py:85: config = Config(args.config)
LoadConfig ==
    /\ main.pc = "load_config"
    /\ main' = IF config_error(main.file) = "none"
               THEN [main EXCEPT !.pc = "override",
                        !.config = [kind |-> "config", token |-> main.file.token,
                                    org |-> main.file.org,
                                    weights |-> main.file.weights,
                                    max_repos |-> main.file.max_repos]]
               ELSE [main EXCEPT !.pc = "except", !.error = config_error(main.file)]
    /\ UNCHANGED <<sbom, cache>>
    /\ UNCHANGED scorerVars
    /\ UNCHANGED aggVars

\* main.py:88-94: command-line overrides, written into the loaded configuration
ApplyOverrides ==
    /\ main.pc = "override"
    /\ main' = [main EXCEPT !.pc = "check_org",
                   !.config.org = IF main.args.org # "" THEN main.args.org ELSE @,
                   !.config.max_repos =
                       IF main.args.max_repos # 0 THEN main.args.max_repos ELSE @]
    /\ UNCHANGED <<sbom, cache>>
    /\ UNCHANGED scorerVars
    /\ UNCHANGED aggVars

\* main.py:97-104: the example organization is refused with exit code 1
CheckOrg ==
    /\ main.pc = "check_org"
    /\ main' = IF main.config.org = "example-org"
               THEN [main EXCEPT !.pc = "returned", !.exit_code = 1]
               ELSE [main EXCEPT !.pc = "init_cache"]
    /\ UNCHANGED <<sbom, cache>>
    /\ UNCHANGED scorerVars
    /\ UNCHANGED aggVars

\* main.py:107-116: cache = Cache(), cleared or disabled on request
InitCache ==
    /\ main.pc = "init_cache"
    /\ main' = [main EXCEPT !.pc = "init_github"]
    /\ UNCHANGED <<sbom, cache>>
    /\ UNCHANGED scorerVars
    /\ UNCHANGED aggVars

\* main.py:120: GitHubClient(config.github_token, cache=cache), which asks the
\* forge for the authenticated user (github_client.py:41-44)
InitGitHubClient ==
    /\ main.pc = "init_github"
    /\ main' = IF main.env.forge_up
               THEN [main EXCEPT !.pc = "init_sbom"]
               ELSE [main EXCEPT !.pc = "except", !.error = "GithubException"]
    /\ UNCHANGED <<sbom, cache>>
    /\ UNCHANGED scorerVars
    /\ UNCHANGED aggVars

\* main.py:123-127: SBOMGenerator(syft_path, syft_format, cache)
InitSbomGenerator ==
    /\ main.pc = "init_sbom"
    /\ main' = [main EXCEPT !.pc = "init_depsdev"]
    /\ UNCHANGED <<sbom, cache>>
    /\ UNCHANGED scorerVars
    /\ UNCHANGED aggVars

\* main.py:130: DepsDevClient(cache=cache); DepsDevClient.__init__(self)
\* (depsdev_client.py:20) takes no cache argument, so the call raises TypeError
InitDepsDevClient ==
    /\ main.pc = "init_depsdev"
    /\ main' = [main EXCEPT !.pc = "except", !.error = "TypeError"]
    /\ UNCHANGED <<sbom, cache>>
    /\ UNCHANGED scorerVars
    /\ UNCHANGED aggVars

\* Ctrl-C while main is inside its try block
Interrupt ==
    /\ main.pc \in TrySteps
    /\ main' = [main EXCEPT !.pc = "except", !.error = "KeyboardInterrupt",
                   !.interrupted = TRUE]
    /\ UNCHANGED <<sbom, cache>>
    /\ UNCHANGED scorerVars
    /\ UNCHANGED aggVars

\* main.py:345-356: the except clauses
HandleException ==
    /\ main.pc = "except"
    /\ main' = [main EXCEPT !.pc = "returned",
                   !.exit_code = IF main.error = "KeyboardInterrupt" THEN 130 ELSE 1]
    /\ UNCHANGED <<sbom, cache>>
    /\ UNCHANGED scorerVars
    /\ UNCHANGED aggVars

NextMain ==
    \/ \E args \in ArgsSet, file \in ConfigFiles, env \in Environments :
          Invoke(args, file, env)
    \/ LoadConfig
    \/ ApplyOverrides
    \/ CheckOrg
    \/ InitCache
    \/ InitGitHubClient
    \/ InitSbomGenerator
    \/ InitDepsDevClient
    \/ Interrupt
    \/ HandleException

SpecMain == Init /\ [][NextMain]_vars

\* a run of main with a valid configuration, a forge that answers and has at least
\* one repository to select, and no interruption by the user
ValidRun ==
    /\ main.pc # "idle"
    /\ config_error(main.file) = "none"
    /\ main.config.kind = "config" => /\ main.config.org # "example-org"
                                      /\ main.config.max_repos > 0
    /\ main.file.org # "example-org" \/ main.args.org \notin {"", "example-org"}
    /\ main.args.org # "example-org"
    /\ main.args.max_repos >= 0
    /\ main.env.forge_up
    /\ main.env.org_repos >= 1
    /\ ~main.interrupted

\* C20: a run of main with a valid configuration and at least one selected
\* repository, not interrupted by the user, goes through aggregation, scoring and
\* normalization, hands the scored dependencies to report generation and returns
\* exit code 0.
C20_ValidRunReturnsZero ==
    (main.pc = "returned" /\ ValidRun) => main.exit_code = 0

----------------------------------------------------------------------------
\* Recency curves (scorer.py:314-322, 336-344)

RLe(a, b) == a.n * b.d <= b.n * a.d

CommitAges == { date.days : date \in {x \in CommitDates : Usable(x)} }
ReleaseAges == { date.days : date \in {x \in ReleaseDates : Usable(x)} }

\* C29: the recency score of a timestamp never increases with age: for the
\* commit curve and for the release curve an older timestamp scores no higher,
\* the curves are 0 from 365 days (commits) and 730 days (releases) on, and
\* upstream_activity of the same bundle with an older timestamp is no higher
\* than the upstream_activity that was computed.
C29_RecencyNeverIncreasesWithAge ==
    (Scored /\ call.github_metrics.kind = "dict") =>
        LET gh == call.github_metrics
            lc == gh.last_commit_date
            lr == gh.last_release_date
        IN  /\ Usable(lc) =>
                 \A older \in {d \in CommitAges : d >= lc.days} :
                     /\ RLe(commit_score(older), commit_score(lc.days))
                     /\ RLe(calc_upstream_activity(
                                [gh EXCEPT !.last_commit_date = DaysAgo(older)]),
                            locals.sub.upstream_activity)
            /\ Usable(lr) =>
                 \A older \in {d \in ReleaseAges : d >= lr.days} :
                     /\ RLe(release_score(older), release_score(lr.days))
                     /\ RLe(calc_upstream_activity(
                                [gh EXCEPT !.last_release_date = DaysAgo(older)]),
                            locals.sub.upstream_activity)
            /\ (Usable(lc) /\ lc.days >= 365) => commit_score(lc.days) = RInt(0)
            /\ (Usable(lr) /\ lr.days >= 730) => release_score(lr.days) = RInt(0)

----------------------------------------------------------------------------
(* The cache (src/src/cache.py): one JSON file per key in the cache        *)
(* directory, read and written by the Cache object.  Time is counted in    *)
(* hours.                                                                  *)

ttl_hours == 24
MaxClock == 26

\* the hours that pass between two calls
ElapseHours == {12, 13}

\* the key generate_sbom_for_repo builds, sbom_generator.py:60: f"sbom:{repo_name}"
SbomKey(repo_name) == <<"sbom", repo_name>>
CacheKeys == { SbomKey(r) : r \in RepoNames }

\* values handed to set: JSON-serializable data (the lists of dependency dicts of
\* sbom_generator.py:97, which json.dump and json.load give back unchanged) and
\* an object json.dump cannot write
JsonValue(data) == [kind |-> "json", data |-> data]
Unserializable == [kind |-> "object"]
DependencyLists ==
    { <<>>,
      <<Dependency(<<"a", "_", "b">>, "1.0", Npm)>>,
      <<Dependency(<<"a", "_", "b">>, "1.0", Npm), Dependency(<<"a", "b">>, "1.0", Pypi)>> }
CacheValues == { JsonValue(l) : l \in DependencyLists } \cup {Unserializable}

\* a cache file: absent, written by set, or with a content on which get's try
\* block (cache.py:66-77) raises the named exception
NoEntry == [kind |-> "absent"]
Entry(value, now) == [kind |-> "entry", value |-> value, cached_at |-> now]
Corrupted(exception) == [kind |-> "corrupted", raises |-> exception]
CaughtByGet == {"JSONDecodeError", "KeyError", "ValueError"}
Corruptions == CaughtByGet \cup {"TypeError"}

None == [kind |-> "None"]
Returned(value) == [kind |-> "value", value |-> value]
Raised(exception) == [kind |-> "raised", exception |-> exception]

\* Cache.get(key), cache.py:46-82: what the call returns or lets through, and the
\* files it leaves
cache_get(c, key) ==
    LET file == c.files[key]
        deleted == [c.files EXCEPT ![key] = NoEntry]
    IN  IF ~c.enabled THEN [ret |-> None, files |-> c.files]
        ELSE IF file.kind = "absent" THEN [ret |-> None, files |-> c.files]
        ELSE IF file.kind = "corrupted"
             THEN IF file.raises \in CaughtByGet
                  THEN [ret |-> None, files |-> deleted]
                  ELSE [ret |-> Raised(file.raises), files |-> c.files]
        ELSE IF c.now - file.cached_at > ttl_hours
             THEN [ret |-> None, files |-> deleted]
        ELSE [ret |-> Returned(file.value.data), files |-> c.files]

\* Cache.set(key, value), cache.py:84-108: the files it leaves.  open(path, 'w')
\* truncates the file and json.dump writes up to the value before it raises the
\* TypeError that set catches, which leaves a file that is not valid JSON
cache_set(c, key, value) ==
    IF ~c.enabled THEN c.files
    ELSE IF value.kind = "json"
         THEN [c.files EXCEPT ![key] = Entry(value, c.now)]
         ELSE [c.files EXCEPT ![key] = Corrupted("JSONDecodeError")]

\* history of the calls: per key, the value and time of the latest set made while
\* the cache was enabled, forgotten when the cache is cleared
NotWritten == [kind |-> "none"]
Written(value, now) == [kind |-> "set", value |-> value, at |-> now]

\* Cache(), cache.py:17-28, on an empty cache directory
NewCache ==
    [state |-> "ready", enabled |-> TRUE, now |-> 0,
     files |-> [k \in CacheKeys |-> NoEntry],
     written |-> [k \in CacheKeys |-> NotWritten],
     last |-> [op |-> "Cache"]]

CacheGet(key) ==
    /\ cache.state = "ready"
    /\ LET got == cache_get(cache, key)
       IN  cache' = [cache EXCEPT !.files = got.files,
                                  !.last = [op |-> "get", key |-> key, ret |-> got.ret]]
    /\ UNCHANGED <<sbom, main>>
    /\ UNCHANGED scorerVars
    /\ UNCHANGED aggVars

CacheSet(key, value) ==
    /\ cache.state = "ready"
    /\ cache' = [cache EXCEPT !.files = cache_set(cache, key, value),
                              !.written[key] = IF cache.enabled
                                               THEN Written(value, cache.now) ELSE @,
                              !.last = [op |-> "set", key |-> key, value |-> value]]
    /\ UNCHANGED <<sbom, main>>
    /\ UNCHANGED scorerVars
    /\ UNCHANGED aggVars

\* Cache.clear(), cache.py:110-116: every file is deleted, enabled or not
CacheClear ==
    /\ cache.state = "ready"
    /\ cache' = [cache EXCEPT !.files = [k \in CacheKeys |-> NoEntry],
                              !.written = [k \in CacheKeys |-> NotWritten],
                              !.last = [op |-> "clear"]]
    /\ UNCHANGED <<sbom, main>>
    /\ UNCHANGED scorerVars
    /\ UNCHANGED aggVars

\* Cache.disable(), cache.py:135-138
CacheDisable ==
    /\ cache.state = "ready"
    /\ cache' = [cache EXCEPT !.enabled = FALSE, !.last = [op |-> "disable"]]
    /\ UNCHANGED <<sbom, main>>
    /\ UNCHANGED scorerVars
    /\ UNCHANGED aggVars

\* Cache.enable(), cache.py:140-143
CacheEnable ==
    /\ cache.state = "ready"
    /\ cache' = [cache EXCEPT !.enabled = TRUE, !.last = [op |-> "enable"]]
    /\ UNCHANGED <<sbom, main>>
    /\ UNCHANGED scorerVars
    /\ UNCHANGED aggVars

\* datetime.now() (cache.py:70, 99) moves on between two calls
Elapse(hours) ==
    /\ cache.state = "ready"
    /\ cache.now + hours <= MaxClock
    /\ cache' = [cache EXCEPT !.now = @ + hours, !.last = [op |-> "elapse"]]
    /\ UNCHANGED <<sbom, main>>
    /\ UNCHANGED scorerVars
    /\ UNCHANGED aggVars

\* a cache file is damaged on disk between two calls
CorruptFile(key, exception) ==
    /\ cache.state = "ready"
    /\ cache.files[key].kind = "entry"
    /\ cache' = [cache EXCEPT !.files[key] = Corrupted(exception),
                              !.last = [op |-> "corrupt"]]
    /\ UNCHANGED <<sbom, main>>
    /\ UNCHANGED scorerVars
    /\ UNCHANGED aggVars

InitCacheObject ==
    /\ InitScorer
    /\ InitAggIdle
    /\ sbom = <<>>
    /\ main = [pc |-> "idle"]
    /\ cache = NewCache

NextCache ==
    \/ \E k \in CacheKeys : CacheGet(k)
    \/ \E k \in CacheKeys, v \in CacheValues : CacheSet(k, v)
    \/ CacheClear
    \/ CacheDisable
    \/ CacheEnable
    \/ \E h \in ElapseHours : Elapse(h)
    \/ \E k \in CacheKeys, e \in Corruptions : CorruptFile(k, e)

SpecCache == InitCacheObject /\ [][NextCache]_vars

Expired(c, key) ==
    c.files[key].kind = "entry" /\ c.now - c.files[key].cached_at > ttl_hours

\* C27: get(key) returns a value only if the cache is enabled and the value is the
\* one written by the latest set(key) made while enabled, not cleared since and
\* not older than the TTL; an expired or corrupted entry is deleted by the get
\* that finds it and None is returned; while disabled, get returns None and set
\* leaves the stored entries unchanged.
C27_GetReturnsLatestFreshValue ==
    [][ /\ cache'.last.op = "get" =>
             LET key == cache'.last.key
                 ret == cache'.last.ret
             IN  /\ ret.kind = "value" =>
                       /\ cache.enabled
                       /\ cache.written[key].kind = "set"
                       /\ cache.written[key].value = JsonValue(ret.value)
                       /\ cache.now - cache.written[key].at <= ttl_hours
                 /\ (cache.enabled /\ (Expired(cache, key)
                                       \/ cache.files[key].kind = "corrupted")) =>
                       /\ cache'.files[key] = NoEntry
                       /\ ret = None
                 /\ ~cache.enabled => ret = None
        /\ (cache'.last.op = "set" /\ ~cache.enabled) => cache'.files = cache.files
      ]_vars

----------------------------------------------------------------------------
(* generate_sbom_for_repo with its cache (sbom_generator.py:45-99)         *)

\* _parse_cyclonedx over the components of an SBOM, sbom_generator.py:159-179
RECURSIVE parse_cyclonedx_from(_, _)
parse_cyclonedx_from(dependencies, components) ==
    IF components = <<>> THEN dependencies
    ELSE parse_cyclonedx_from(parse_component(dependencies, Head(components)),
                              Tail(components))

parse_cyclonedx(components) == parse_cyclonedx_from(<<>>, components)

\* what cloning the repository and running the SBOM tool give: git or the tool
\* fails, the tool's output is not JSON, or an SBOM with these components
SbomOutcomes ==
    { Raised("CalledProcessError"), Raised("ValueError") }
    \cup { Returned(components) :
             components \in { <<>>,
                              <<Component(NoName, "1.0", PurlNpm)>>,
                              <<Component(Name(<<"A", "_", "b">>), "1.0", PurlNpm)>>,
                              <<Component(Name(<<"A", "_", "b">>), "1.0", PurlPyPI)>> } }

\* Python truth value of what cache.get returned: None and the empty list are false
CachedTruthy(ret) == ret.kind = "value" /\ ret.value # <<>>

\* sbom_generator.generate_sbom_for_repo(repo_url, repo_name), sbom_generator.py:45-99
GenerateSbomForRepo(repo_name, outcome) ==
    /\ cache.state = "ready"
    /\ LET cache_key == SbomKey(repo_name)
           got == cache_get(cache, cache_key)
           afterGet == [cache EXCEPT !.files = got.files]
       IN  IF CachedTruthy(got.ret)
           THEN cache' = [afterGet EXCEPT
                             !.last = [op |-> "generate_sbom_for_repo",
                                       repo_name |-> repo_name, cloned |-> FALSE,
                                       ret |-> Returned(got.ret.value)]]
           ELSE IF outcome.kind = "raised"
           THEN cache' = [afterGet EXCEPT
                             !.last = [op |-> "generate_sbom_for_repo",
                                       repo_name |-> repo_name, cloned |-> TRUE,
                                       ret |-> outcome]]
           ELSE LET dependencies == parse_cyclonedx(outcome.value)
                IN  cache' = [afterGet EXCEPT
                                 !.files = cache_set(afterGet, cache_key,
                                                     JsonValue(dependencies)),
                                 !.written[cache_key] =
                                     IF cache.enabled
                                     THEN Written(JsonValue(dependencies), cache.now)
                                     ELSE @,
                                 !.last = [op |-> "generate_sbom_for_repo",
                                           repo_name |-> repo_name, cloned |-> TRUE,
                                           ret |-> Returned(dependencies)]]
    /\ UNCHANGED <<sbom, main>>
    /\ UNCHANGED scorerVars
    /\ UNCHANGED aggVars

\* the cache as main hands it to the generator: enabled, or disabled by --no-cache
\* (main.py:107-116)
InitSbomCache ==
    /\ InitScorer
    /\ InitAggIdle
    /\ sbom = <<>>
    /\ main = [pc |-> "idle"]
    /\ \E enabled \in BOOLEAN : cache = [NewCache EXCEPT !.enabled = enabled]

NextSbomCache ==
    \/ \E r \in RepoNames, outcome \in SbomOutcomes : GenerateSbomForRepo(r, outcome)
    \/ \E h \in ElapseHours : Elapse(h)

SpecSbomCache == InitSbomCache /\ [][NextSbomCache]_vars

\* C28: once generate_sbom_for_repo has succeeded for a repository with the cache
\* enabled, every later call for the same repository within the TTL of that
\* success returns the same dependency list from the cache, without cloning the
\* repository or running the SBOM tool again, whatever the list is (the empty list
\* included).
C28_LaterCallsServedFromCache ==
    [][ cache'.last.op = "generate_sbom_for_repo" =>
          LET stored == cache.written[SbomKey(cache'.last.repo_name)]
          IN  (cache.enabled /\ stored.kind = "set"
                 /\ cache.now - stored.at <= ttl_hours) =>
                  /\ cache'.last.ret = Returned(stored.value.data)
                  /\ ~cache'.last.cloned
      ]_vars

\* the same, for the lists that have at least one dependency
C28_NonEmptyListsServedFromCache ==
    [][ cache'.last.op = "generate_sbom_for_repo" =>
          LET stored == cache.written[SbomKey(cache'.last.repo_name)]
          IN  (cache.enabled /\ stored.kind = "set" /\ stored.value.data # <<>>
                 /\ cache.now - stored.at <= ttl_hours) =>
                  /\ cache'.last.ret = Returned(stored.value.data)
                  /\ ~cache'.last.cloned
      ]_vars

----------------------------------------------------------------------------
(* The phases of main() (main.py:133-343).  In every run the statement at  *)
(* main.py:130 raises (see InitDepsDevClient), so no run of the program    *)
(* gets here.  SpecPipeline models the statements that follow as they are  *)
(* written, entered with each configuration that main.py:85-127 lets       *)
(* through, as if the statement at main.py:130 had returned a client whose *)
(* methods are those of depsdev_client.py.  The cache is left out: the     *)
(* SBOM and forge fetches are taken by their outcome.                      *)

GithubPrefix == <<"g", "i", "t", "h", "u", "b", ".", "c", "o", "m", "/">>
GoEcosystems == { <<"g", "o">>, <<"g", "o", "l", "a", "n", "g">> }

\* mutant of infer_from_module_path: the last two segments of the path are taken
infer_from_module_path_lastSegments(dep_info) ==
    IF Lower(dep_info.ecosystem) \in GoEcosystems /\ StartsWith(dep_info.name, GithubPrefix)
    THEN LET parts == Split(RemoveAll(dep_info.name, GithubPrefix), "/")
         IN  IF Len(parts) >= 2
             THEN Name(parts[Len(parts) - 1] \o <<"/">> \o parts[Len(parts)])
             ELSE NoName
    ELSE NoName

\* Strategy 1 of main.py:205-216: owner/repo from the module path of a Go module,
\* or None
infer_from_module_path(dep_info) ==
    IF Lower(dep_info.ecosystem) \in GoEcosystems /\ StartsWith(dep_info.name, GithubPrefix)
    THEN LET parts == Split(RemoveAll(dep_info.name, GithubPrefix), "/")
         IN  IF Len(parts) >= 2
             THEN Name(parts[1] \o <<"/">> \o parts[2])
             ELSE NoName
    ELSE NoName

\* dependencies the SBOM of a repository can list
GoModule == Dependency(<<"g", "i", "t", "h", "u", "b", ".", "c", "o", "m", "/", "o", "/", "r", "/", "v", "2">>, "1.0", <<"g", "o", "l", "a", "n", "g">>)
GoModuleNoRepo == Dependency(<<"g", "i", "t", "h", "u", "b", ".", "c", "o", "m", "/", "o">>, "1.0", <<"g", "o", "l", "a", "n", "g">>)
NpmPackage == Dependency(<<"a", "_", "b">>, "1.0", Npm)
NpmPackageOtherCase == Dependency(<<"A", "_", "b">>, "2.0", Npm)

\* what generate_sbom_for_repo gives for a repository (main.py:165-174): an
\* exception, or a list of dependencies
RepoOutcomes ==
    { Raised("CalledProcessError") }
    \cup { Returned(deps) :
             deps \in { <<>>, <<NpmPackage>>, <<GoModule>>,
                        <<NpmPackageOtherCase, GoModule>>,
                        <<GoModuleNoRepo, NpmPackage>> } }

\* what github_client.get_repo_metrics gives (github_client.py:115-214): an
\* exception, or the metrics
ForgeOutcomes ==
    { Raised("GithubException"), Returned(ScenarioForge),
      Returned(Forge(0, 1, FALSE, 0, NoDate, NoDate)) }

\* the repositories of the organization that are neither forks nor archived,
\* ranked (github_client.py:74-104)
OrgRepos(n) == SubSeq(<<"org/api", "org/web">>, 1, n)

\* repos[:max_repos], github_client.py:105: a negative max_repos counts from the end
Slice(seq, n) ==
    IF n >= 0 THEN SubSeq(seq, 1, IF n < Len(seq) THEN n ELSE Len(seq))
    ELSE SubSeq(seq, 1, IF Len(seq) + n > 0 THEN Len(seq) + n ELSE 0)

\* Config(path) followed by the overrides of main.py:88-94
overridden(file, args) ==
    [kind |-> "config", token |-> file.token,
     org |-> IF args.org # "" THEN args.org ELSE file.org,
     weights |-> file.weights,
     max_repos |-> IF args.max_repos # 0 THEN args.max_repos ELSE file.max_repos]

\* the invocations that get past main.py:85-127: the configuration file loads and
\* validates, the organization in effect is not the example one, the forge
\* answers the client's first request
PipelineEntries ==
    { e \in (ArgsSet \X ConfigFiles \X Environments) :
        /\ ~e[1].no_cache
        /\ config_error(e[2]) = "none"
        /\ overridden(e[2], e[1]).org # "example-org"
        /\ e[3].forge_up }

PipelineSteps ==
    {"init_scorer", "phase1", "phase2", "aggregate", "infer", "fetch_registry",
     "fetch_forge", "score", "normalize"}

NoBundle == [kind |-> "None"]

InitPipeline ==
    /\ InitScorer
    /\ InitAggIdle
    /\ sbom = <<>>
    /\ cache = [state |-> "unconstructed"]
    /\ \E e \in PipelineEntries :
          main = [pc |-> "init_scorer", args |-> e[1], file |-> e[2], env |-> e[3],
                  config |-> overridden(e[2], e[1]), error |-> "none",
                  interrupted |-> FALSE, exit_code |-> -1,
                  top_repos |-> <<>>, i |-> 0,
                  github_repo |-> NoName, github_metrics |-> NoBundle,
                  depsdev_metrics |-> NoBundle,
                  scored_dependencies |-> <<>>,
                  sbom_failed |-> {}, registry_failed |-> {}, forge_failed |-> {},
                  forge_fetched |-> <<>>, attempted |-> {},
                  normalize_called |-> FALSE, report |-> "none"]

\* main.py:133: scorer = SPOFScorer(config.scoring_weights)
ConstructScorer ==
    /\ main.pc = "init_scorer"
    /\ scorer.state = "unconstructed"
    /\ LET weights == main.config.weights
       IN  /\ scorer' = [state |-> IF validate_weights(weights) THEN "ready"
                                   ELSE "ValueError",
                         weights |-> weights]
           /\ main' = IF validate_weights(weights)
                      THEN [main EXCEPT !.pc = "phase1"]
                      ELSE [main EXCEPT !.pc = "except", !.error = "ValueError"]
    /\ UNCHANGED <<call, locals, result>>
    /\ UNCHANGED aggVars
    /\ UNCHANGED <<sbom, cache>>

\* main.py:139-154: the rate limit is read and the top repositories are fetched;
\* a GithubException of get_top_repos (github_client.py:67-101) is not caught in
\* the phase, and an empty selection ends the run with exit code 1
FetchTopRepos(answers) ==
    /\ main.pc = "phase1"
    /\ LET top_repos == Slice(OrgRepos(main.env.org_repos), main.config.max_repos)
       IN  main' = IF ~answers
                   THEN [main EXCEPT !.pc = "except", !.error = "GithubException"]
                   ELSE IF top_repos = <<>>
                   THEN [main EXCEPT !.pc = "returned", !.exit_code = 1]
                   ELSE [main EXCEPT !.pc = "phase2", !.top_repos = top_repos, !.i = 1]
    /\ UNCHANGED scorerVars
    /\ UNCHANGED aggVars
    /\ UNCHANGED <<sbom, cache>>

\* mutant of collect_repo: the exception of SBOM generation is not caught
collect_repo_fatal(outcome) ==
    IF outcome.kind = "raised"
    THEN [dependencies |-> <<>>, error |-> outcome.exception]
    ELSE [dependencies |-> outcome.value, error |-> "none"]

\* the try/except of main.py:164-174: the dependencies stored for the repository
\* and the exception that leaves the loop
collect_repo(outcome) ==
    IF outcome.kind = "raised"
    THEN [dependencies |-> <<>>, error |-> "none"]
    ELSE [dependencies |-> outcome.value, error |-> "none"]

\* main.py:162-174: one pass of the Phase 2 loop
CollectRepo(outcome) ==
    /\ main.pc = "phase2"
    /\ LET repo == main.top_repos[main.i]
           collected == collect_repo(outcome)
       IN  IF collected.error # "none"
           THEN /\ main' = [main EXCEPT !.pc = "except", !.error = collected.error]
                /\ UNCHANGED repo_dependencies
           ELSE /\ repo_dependencies' =
                       Append(repo_dependencies, <<repo, collected.dependencies>>)
                /\ main' = [main EXCEPT
                               !.sbom_failed = IF outcome.kind = "raised"
                                               THEN @ \cup {repo} ELSE @,
                               !.i = IF main.i < Len(main.top_repos) THEN @ + 1 ELSE 0,
                               !.pc = IF main.i < Len(main.top_repos) THEN "phase2"
                                      ELSE "aggregate"]
    /\ UNCHANGED aggregated
    /\ UNCHANGED scorerVars
    /\ UNCHANGED <<sbom, cache>>

\* main.py:178-186: aggregation, and the Phase 3 loop is entered
AggregateDependencies ==
    /\ main.pc = "aggregate"
    /\ LET aggregated_deps == aggregate_dependencies(repo_dependencies)
       IN  /\ aggregated' = [done |-> TRUE, deps |-> aggregated_deps]
           /\ main' = IF Len(aggregated_deps) = 0
                      THEN [main EXCEPT !.pc = "normalize"]
                      ELSE [main EXCEPT !.pc = "infer", !.i = 1]
    /\ UNCHANGED repo_dependencies
    /\ UNCHANGED scorerVars
    /\ UNCHANGED <<sbom, cache>>

\* main.py:197-223: the loop variables are reset and the module path is tried
InferForgeRepo ==
    /\ main.pc = "infer"
    /\ main' = [main EXCEPT !.pc = "fetch_registry",
                   !.github_metrics = NoBundle,
                   !.depsdev_metrics = NoBundle,
                   !.github_repo = infer_from_module_path(aggregated.deps[main.i])]
    /\ UNCHANGED scorerVars
    /\ UNCHANGED aggVars
    /\ UNCHANGED <<sbom, cache>>

\* what depsdev_client.get_package_metrics(ecosystem, normalized_name, version)
\* (main.py:235-239) gives: the method takes (ecosystem, package_name)
\* (depsdev_client.py:136), so the call with three arguments raises TypeError
RegistryOutcomes == { Raised("TypeError") }

\* Strategy 2 of main.py:245-254: owner/repo from the repository link of the
\* registry metrics, tried when the module path gave nothing
infer_from_links(github_repo, depsdev_metrics) ==
    IF github_repo.kind = "None" /\ Truthy(depsdev_metrics)
         /\ depsdev_metrics.links_repository.kind = "str"
    THEN depsdev_metrics.links_repository
    ELSE github_repo

\* main.py:226-257: the registry metrics are asked for inside try/except Exception
FetchRegistry(outcome) ==
    /\ main.pc = "fetch_registry"
    /\ LET dep_info == aggregated.deps[main.i]
       IN  main' = IF outcome.kind = "raised"
                   THEN [main EXCEPT !.pc = "fetch_forge",
                            !.registry_failed = @ \cup {dep_info.key}]
                   ELSE [main EXCEPT !.pc = "fetch_forge",
                            !.depsdev_metrics = outcome.value,
                            !.github_repo = infer_from_links(@, outcome.value)]
    /\ UNCHANGED scorerVars
    /\ UNCHANGED aggVars
    /\ UNCHANGED <<sbom, cache>>

\* the try/except of main.py:261-271: github_metrics after the fetch
fetch_forge(outcome) ==
    IF outcome.kind = "raised" THEN NoBundle ELSE outcome.value

\* main.py:260-271: the forge metrics are fetched when an identity was found
FetchForge(outcome) ==
    /\ main.pc = "fetch_forge"
    /\ LET dep_info == aggregated.deps[main.i]
       IN  main' = IF main.github_repo.kind = "str"
                   THEN [main EXCEPT !.pc = "score",
                            !.github_metrics = fetch_forge(outcome),
                            !.forge_fetched = Append(@, <<dep_info.key, main.github_repo.s>>),
                            !.forge_failed = IF outcome.kind = "raised"
                                             THEN @ \cup {dep_info.key} ELSE @]
                   ELSE [main EXCEPT !.pc = "score"]
    /\ UNCHANGED scorerVars
    /\ UNCHANGED aggVars
    /\ UNCHANGED <<sbom, cache>>

\* mutant of after_scoring: normalization follows the first dependency
after_scoring_first(i, total_deps) == "normalize"

\* the end of the loop body, main.py:197 and 292-294: the next dependency, or
\* normalization after the last one
after_scoring(i, total_deps) == IF i < total_deps THEN "infer" ELSE "normalize"

\* mutant of total_repos: only the repositories whose SBOM listed a dependency
total_repos_withDependencies(top_repos) ==
    Cardinality({ k \in 1 .. Len(repo_dependencies) : repo_dependencies[k][2] # <<>> })

\* total_repos_analyzed=len(top_repos), main.py:280
total_repos(top_repos) == Len(top_repos)

\* mutant of score_locals: the sub-scores of the previous call are kept when there are any
score_locals_carriedOver(weights, dep_info, github_metrics, depsdev_metrics, total) ==
    IF locals.kind = "computed" THEN locals
    ELSE ScoreLocals(weights, dep_info, github_metrics, depsdev_metrics, total)

\* the values score_dependency computes for one call, scorer.py:66-94
score_locals(weights, dep_info, github_metrics, depsdev_metrics, total) ==
    ScoreLocals(weights, dep_info, github_metrics, depsdev_metrics, total)

\* main.py:273-290: score_dependency inside try/except Exception; the record is
\* appended when the call returns
ScoreStep ==
    /\ main.pc = "score"
    /\ scorer.state = "ready"
    /\ LET dep_info == aggregated.deps[main.i]
           total_repos_analyzed == total_repos(main.top_repos)
           next == after_scoring(main.i, Len(aggregated.deps))
       IN  /\ call' = [kind |-> "score_dependency", dep_info |-> dep_info,
                       github_metrics |-> main.github_metrics,
                       depsdev_metrics |-> main.depsdev_metrics,
                       total_repos_analyzed |-> total_repos_analyzed]
           /\ IF SubScoreNames \subseteq DOMAIN scorer.weights
              THEN LET loc == score_locals(scorer.weights, dep_info, main.github_metrics,
                                           main.depsdev_metrics, total_repos_analyzed)
                       scored_dep == MakeScoredDependency(dep_info, main.github_metrics,
                                                          main.depsdev_metrics, loc)
                   IN  /\ locals' = loc
                       /\ result' = scored_dep
                       /\ main' = [main EXCEPT !.pc = next, !.i = @ + 1,
                                      !.attempted = @ \cup {dep_info.key},
                                      !.scored_dependencies = Append(@, scored_dep)]
              ELSE /\ locals' = NoLocals
                   /\ result' = [kind |-> "KeyError"]
                   /\ main' = [main EXCEPT !.pc = next, !.i = @ + 1,
                                  !.attempted = @ \cup {dep_info.key}]
    /\ UNCHANGED scorer
    /\ UNCHANGED aggVars
    /\ UNCHANGED <<sbom, cache>>

\* main.py:292-294: scorer.normalize_dependency_scores(scored_dependencies); the
\* attribute does not exist (see NormalizeDependencyScores), AttributeError leaves
\* the try block and the statements up to main.py:343 are not run
NormalizeStep ==
    /\ main.pc = "normalize"
    /\ scorer.state = "ready"
    /\ call' = [kind |-> "normalize_dependency_scores",
                scored_dependencies |-> main.scored_dependencies]
    /\ locals' = NoLocals
    /\ result' = [kind |-> "AttributeError"]
    /\ main' = [main EXCEPT !.pc = "except", !.error = "AttributeError",
                   !.normalize_called = TRUE]
    /\ UNCHANGED scorer
    /\ UNCHANGED aggVars
    /\ UNCHANGED <<sbom, cache>>

\* Ctrl-C during the phases: KeyboardInterrupt is an exception no
\* "except Exception" of the loops catches
InterruptPhases ==
    /\ main.pc \in PipelineSteps
    /\ main' = [main EXCEPT !.pc = "except", !.error = "KeyboardInterrupt",
                   !.interrupted = TRUE]
    /\ UNCHANGED scorerVars
    /\ UNCHANGED aggVars
    /\ UNCHANGED <<sbom, cache>>

NextPipeline ==
    \/ ConstructScorer
    \/ \E answers \in BOOLEAN : FetchTopRepos(answers)
    \/ \E outcome \in RepoOutcomes : CollectRepo(outcome)
    \/ AggregateDependencies
    \/ InferForgeRepo
    \/ \E outcome \in RegistryOutcomes : FetchRegistry(outcome)
    \/ \E outcome \in ForgeOutcomes : FetchForge(outcome)
    \/ ScoreStep
    \/ NormalizeStep
    \/ InterruptPhases
    \/ HandleException

SpecPipeline == InitPipeline /\ [][NextPipeline]_vars

----------------------------------------------------------------------------
(* Properties of the phases, checked under SpecPipeline                    *)

AggregatedKeys == { aggregated.deps[k].key : k \in 1 .. Len(aggregated.deps) }

AbortedWhileScoring ==
    /\ main.interrupted
    /\ aggregated.done
    /\ main.i \in 1 .. Len(aggregated.deps)

C22_NoPartialRecord ==
    (main.pc = "returned" /\ AbortedWhileScoring) =>
        /\ Len(main.scored_dependencies) = Cardinality(main.attempted)
        /\ \A k \in 1 .. Len(main.scored_dependencies) :
              /\ main.scored_dependencies[k].kind = "ScoredDependency"
              /\ main.scored_dependencies[k].raw_data.usage.key \in main.attempted

ScoredRecords == { main.scored_dependencies[k] : k \in 1 .. Len(main.scored_dependencies) }

\* C23: a data error is never fatal to a run: when SBOM generation fails for a
\* repository, or the registry fetch or the forge fetch fails for a dependency,
\* the run continues, the repository contributes no occurrences, and the
\* dependency is still scored with the failed bundle treated as absent (its
\* sub-scores at the documented defaults and its confidence lowered).
C23_DataErrorsNotFatal ==
    /\ main.error \notin {"CalledProcessError", "TypeError"}
    /\ main.error = "GithubException" => main.top_repos = <<>>
    /\ \A repo \in main.sbom_failed :
          /\ \E k \in 1 .. Len(repo_dependencies) : repo_dependencies[k] = <<repo, <<>>>>
          /\ \A k \in 1 .. Len(aggregated.deps) :
                repo \notin SeqRange(aggregated.deps[k].repos_using)
    /\ \A key \in main.attempted \cap (main.registry_failed \cup main.forge_failed) :
          \E rec \in ScoredRecords :
             /\ rec.raw_data.usage.key = key
             /\ rec.confidence < 100
             /\ key \in main.registry_failed =>
                   /\ rec.raw_data.depsdev = NoBundle
                   /\ rec.confidence <= 50
             /\ key \in main.forge_failed =>
                   /\ rec.raw_data.github = NoBundle
                   /\ rec.metrics.maintainer_risk = 5000
                   /\ rec.metrics.upstream_activity = 0
                   /\ rec.confidence <= 50
             /\ (key \in main.registry_failed /\ key \in main.forge_failed) =>
                   /\ rec.metrics.ecosystem_popularity = 0
                   /\ rec.metrics.security_health = 10000
                   /\ rec.confidence = 0

\* SBOM generation failed for one repository and the other contributed a Go
\* module whose registry fetch and forge fetch both failed; it was scored
C23_Witness ==
    /\ main.sbom_failed # {}
    /\ \E rec \in ScoredRecords :
          /\ rec.raw_data.usage.key \in main.registry_failed \cap main.forge_failed
          /\ rec.confidence = 0
          /\ rec.metrics.maintainer_risk = 5000

ModulePathOwnerRepo(dep_info) ==
    LET host == GithubPrefix
        path == dep_info.name
    IN  IF Lower(dep_info.ecosystem) \in GoEcosystems /\ StartsWith(path, host)
        THEN LET segments == Split(SubSeq(path, Len(host) + 1, Len(path)), "/")
             IN  IF Len(segments) >= 2
                 THEN Name(segments[1] \o <<"/">> \o segments[2])
                 ELSE NoName
        ELSE NoName

ForgeFetches == { main.forge_fetched[k] : k \in 1 .. Len(main.forge_fetched) }

C30_UsageWithinSelectedRepos ==
    /\ call.kind = "score_dependency" =>
          LET usage_count == call.dep_info.usage_count
              total == call.total_repos_analyzed
          IN  /\ 1 <= total
              /\ usage_count <= total
              /\ total = Len(main.top_repos)
              /\ main.sbom_failed \subseteq SeqRange(main.top_repos)
              /\ Scored => /\ locals.sub.internal_criticality = Rat(100 * usage_count, total)
                           /\ RLeInt(locals.sub.internal_criticality, 100)
    /\ \A rec \in ScoredRecords :
          /\ rec.raw_data.usage.key \in AggregatedKeys
          /\ rec.metrics.internal_criticality =
                Round2(Rat(100 * rec.raw_data.usage.usage_count, Len(main.top_repos)))
    /\ \A j, k \in 1 .. Len(main.scored_dependencies) :
          main.scored_dependencies[j].raw_data.usage.key
              = main.scored_dependencies[k].raw_data.usage.key => j = k

\* a dependency used by one of two selected repositories, the other's SBOM
\* generation having failed, was scored with internal_criticality 50
C30_Witness ==
    /\ call.kind = "score_dependency"
    /\ Scored
    /\ call.total_repos_analyzed = 2
    /\ call.dep_info.usage_count = 1
    /\ main.sbom_failed # {}
    /\ result.metrics.internal_criticality = 5000

\* the record scoring gives for a dependency record, its two bundles and the total
\* repository count, under the weights w
ScoredFrom(w, dep_info, github_metrics, depsdev_metrics, total) ==
    LET sub == SubScores(dep_info, github_metrics, depsdev_metrics, total)
    IN  MakeScoredDependency(dep_info, github_metrics, depsdev_metrics,
            [kind |-> "computed", sub |-> sub, spof_score |-> WeightedSum(w, sub),
             confidence |-> calc_confidence(github_metrics, depsdev_metrics)])

============================================================================
